---- MODULE Spec2Model ----
(***************************************************************************)
(* Keyword extraction and weighted match scoring of the job portal         *)
(* (backend/services/nlp_analyzer.py) and its rule-based suggestions       *)
(* (backend/services/ai_optimizer.py: suggest_improvements).               *)
(*                                                                         *)
(* The module also covers the auto-apply queue and its rate limiter        *)
(* (backend/services/scheduler_service.py: ApplicationQueue,               *)
(* backend/services/auto_apply_service.py: RateLimiter) with the routes    *)
(* that use them (backend/api/routes/applications.py, jobs.py).            *)
(*                                                                         *)
(* The specifications share the operators of this module:                  *)
(*   SpecScore    calculate_match_score applied to every pair of analysis  *)
(*                records over small universes of skill names;             *)
(*   SpecText     one call of an extractor or analyze function on every    *)
(*                text of several families of texts, and on None;          *)
(*   SpecCalls    up to MaxCalls calls, one after the other in one         *)
(*                process, on a few texts;                                 *)
(*   SpecSuggest  suggest_improvements applied to resumes, job records     *)
(*                and match scores;                                        *)
(*   SpecShared   threads that run the statements of engine operations on  *)
(*                one analyzer and the same records, in any interleaving;  *)
(*   SpecApply    create_application: analysis of a description and of a   *)
(*                resume, the score and the suggestions;                   *)
(*   SpecQueue    the auto-apply route, the rate limiter, the clock and    *)
(*                the invocations of process_queue on one event loop;      *)
(*   LiveQueue    SpecQueue with the coroutines resumed fairly.            *)
(*                                                                         *)
(* Representation.                                                         *)
(*   - A Python list is a TLA+ sequence; a Python set is a TLA+ set.       *)
(*     list(a_set) is any ordering of the set (SetListings).               *)
(*   - A text is a sequence of characters, a character a one-element       *)
(*     string ("p"); "U+FB06" is the single character LATIN SMALL LIGATURE *)
(*     ST, whose uppercase form is the two characters "S" "T".             *)
(*   - A float score is kept exact: a sub-score is a fraction <<n, d>>,     *)
(*     and a score rounded to two decimals is its number of hundredths     *)
(*     (5667 is 56.67).                                                    *)
(***************************************************************************)
EXTENDS Integers, Sequences, FiniteSets, TLC

VARIABLES
    resume_analysis,  \* the resume record handed to calculate_match_score
    job_analysis,     \* the job record handed to calculate_match_score
    arrangement,      \* how the record lists were ordered when handed over
    match,            \* what calculate_match_score returned ("none" before)
    text,             \* the text handed to an extractor or analyzer
    call,             \* which operation ran on the text ("none" before)
    lexicon,          \* name of the skill list handed to _extract_skills
    out,              \* what the operation on the text returned
    raised,           \* the call that raised and its exception ("none" before)
    remaining,        \* how many more calls are made on the text
    since,            \* the calls made since analyze_job_description was called
    records,          \* what the calls of analyze_job_description returned
    hashing,          \* the orders this process has listed sets in
    analyzer,         \* the fields of the NLPAnalyzer instance the threads share
    passed,           \* the texts and records handed to the calls
    threads,          \* each thread's call: its method, position and locals
    returned,         \* what each thread's call returned (<<>> before)
    settings,         \* the settings the routes read (core/config.py)
    namespace,        \* the names bound in the module scheduler_service
    today,            \* the calendar day, datetime.now().date()
    storage,          \* the content of data/rate_limits.json
    rate_limiter,     \* the fields of the global RateLimiter
    application_queue,\* the fields of the global ApplicationQueue
    tasks,            \* each process_queue invocation: its position and locals
    log               \* what the route and the invocations have done so far

\* The variables of the calls on one text and of the scored records.
analysis == <<resume_analysis, job_analysis, arrangement, match,
              text, call, lexicon, out, raised, remaining, since, records, hashing>>

\* The variables of the threads that share one analyzer.
engine == <<analyzer, passed, threads, returned>>

\* The variables of the auto-apply queue and its rate limiter.
automation == <<settings, namespace, today, storage, rate_limiter, application_queue,
                tasks, log>>

vars == <<analysis, engine, automation>>

\* ------------------------------------------------------------- bounds

\* Number of technical skill names the scored records draw from.
MaxSkills == 3

\* ------------------------------------------------------------ helpers

Min(a, b) == IF a <= b THEN a ELSE b

Range(s) == {s[i] : i \in DOMAIN s}

Reverse(s) == [i \in 1..Len(s) |-> s[Len(s) + 1 - i]]

\* Every ordering of a finite set, as sequences without repetition.
RECURSIVE SetListings(_)
SetListings(S) ==
    IF S = {} THEN {<<>>}
    ELSE UNION {{<<x>> \o rest : rest \in SetListings(S \ {x})} : x \in S}

\* ----------------------------------------------------- float arithmetic

\* The distinct elements of a list, in order of first appearance.
Distinct(s) ==
    LET firsts == {i \in DOMAIN s : \A j \in 1..(i - 1) : s[j] # s[i]}
    IN  [k \in 1..Cardinality(firsts) |->
            s[CHOOSE i \in firsts : Cardinality({j \in firsts : j < i}) = k - 1]]

\* A set of more than MaxPermuted elements is listed in two orders only.
MaxPermuted == 4

\* The orders list(set(s)) can have: every order of the elements of s, for
\* more than MaxPermuted elements the order of s and its reverse.
Orders(s) ==
    IF Len(Distinct(s)) <= MaxPermuted THEN SetListings(Range(s))
    ELSE {Distinct(s), Reverse(Distinct(s))}

\* A raised ZeroDivisionError, in place of a fraction <<n, d>>.
ZeroDivisionError == <<"ZeroDivisionError">>

Raised(x) == Len(x) = 1

\* Python's a / b on integers: a ZeroDivisionError when b is 0.
truediv(a, b) == IF b = 0 THEN ZeroDivisionError ELSE <<a, b>>

\* ratio * weight, propagating the exception.
fmul(ratio, weight) ==
    IF Raised(ratio) THEN ratio ELSE <<ratio[1] * weight, ratio[2]>>

\* round(n / d * 100) to the nearest integer, ties to even, as Python's
\* round(x, 2) does for a value that is exactly representable.
RoundHundredths(n, d) ==
    LET q == (100 * n) \div d
        r == (100 * n) % d
    IN  IF 2 * r < d THEN q
        ELSE IF 2 * r > d THEN q + 1
        ELSE IF q % 2 = 0 THEN q ELSE q + 1

\* sum(scores.values()) over the four fractions, as one fraction.
SumScores(s1, s2, s3, s4) ==
    <<s1[1] * s2[2] * s3[2] * s4[2] + s2[1] * s1[2] * s3[2] * s4[2]
        + s3[1] * s1[2] * s2[2] * s4[2] + s4[1] * s1[2] * s2[2] * s3[2],
      s1[2] * s2[2] * s3[2] * s4[2]>>

\* ------------------------------------------------ calculate_match_score

\* CategoryScore with a slip: the ratio is taken without the guard on the
\* job-side set.
CategoryScoreUnguarded(resume_set, job_set, weight) ==
    fmul(truediv(Cardinality(resume_set \cap job_set), Cardinality(job_set)), weight)

\* CategoryScore with a slip: the resume's skills are counted whether or not
\* the job names them.
CategoryScoreAllCounted(resume_set, job_set, weight) ==
    IF job_set # {}
    THEN fmul(truediv(Cardinality(resume_set), Cardinality(job_set)), weight)
    ELSE <<0, 1>>

\* CategoryScore with a slip: the overlap is taken relative to the union of
\* both sets instead of the job-side set.
CategoryScoreOverUnion(resume_set, job_set, weight) ==
    IF job_set # {}
    THEN fmul(truediv(Cardinality(resume_set \cap job_set),
                      Cardinality(resume_set \cup job_set)), weight)
    ELSE <<0, 1>>

\* One weighted category: `if job_x: scores[k] = len(r & j) / len(j) * w
\* else: scores[k] = 0'.
CategoryScore(resume_set, job_set, weight) ==
    IF job_set # {}
    THEN fmul(truediv(Cardinality(resume_set \cap job_set), Cardinality(job_set)), weight)
    ELSE <<0, 1>>

\* MatchScores with a slip: every category weighs 25.
MatchScoresEqualWeights(resume, job) ==
    [technical_skills |->
         CategoryScore(Range(resume.technical_skills), Range(job.technical_skills), 25),
     required_skills |->
         CategoryScore(Range(resume.technical_skills), Range(job.required_skills), 25),
     soft_skills |-> CategoryScore(Range(resume.soft_skills), Range(job.soft_skills), 25),
     action_words |-> CategoryScore(Range(resume.action_words), Range(job.action_words), 25)]

\* The four sub-scores of the scores dictionary.
MatchScores(resume, job) ==
    LET resume_tech == Range(resume.technical_skills)
        job_tech == Range(job.technical_skills)
        job_required == Range(job.required_skills)
        resume_soft == Range(resume.soft_skills)
        job_soft == Range(job.soft_skills)
        resume_actions == Range(resume.action_words)
        job_actions == Range(job.action_words)
    IN  [technical_skills |-> CategoryScore(resume_tech, job_tech, 40),
         required_skills |-> CategoryScore(resume_tech, job_required, 30),
         soft_skills |-> CategoryScore(resume_soft, job_soft, 15),
         action_words |-> CategoryScore(resume_actions, job_actions, 15)]

\* TotalScore with a slip: the sum is cut to two decimals, not rounded.
TotalScoreTruncated(scores) ==
    LET total == SumScores(scores.technical_skills, scores.required_skills,
                           scores.soft_skills, scores.action_words)
    IN  (100 * total[1]) \div total[2]

\* round(total_score, 2), in hundredths.
TotalScore(scores) ==
    LET total == SumScores(scores.technical_skills, scores.required_skills,
                           scores.soft_skills, scores.action_words)
    IN  RoundHundredths(total[1], total[2])

\* MissingRequired with its operands exchanged.
MissingRequiredSwapped(job_required, resume_tech) == resume_tech \ job_required

\* job_required - resume_tech
MissingRequired(job_required, resume_tech) == job_required \ resume_tech

\* The results calculate_match_score can return for two records: a raised
\* exception, or the pair (score, breakdown) with each list(set) of the
\* breakdown in any order.
calculate_match_score(resume, job) ==
    LET scores == MatchScores(resume, job)
        resume_tech == Range(resume.technical_skills)
        job_tech == Range(job.technical_skills)
        job_required == Range(job.required_skills)
        resume_actions == Range(resume.action_words)
        job_actions == Range(job.action_words)
    IN  IF \E k \in DOMAIN scores : Raised(scores[k])
        THEN {[raised |-> TRUE]}
        ELSE {[raised |-> FALSE,
               score |-> TotalScore(scores),
               breakdown |->
                   [scores |-> scores,
                    total_score |-> TotalScore(scores),
                    missing_required_skills |-> mr,
                    matching_skills |-> ms,
                    missing_action_words |-> ma]] :
              mr \in SetListings(MissingRequired(job_required, resume_tech)),
              ms \in SetListings(resume_tech \cap job_tech),
              ma \in SetListings(job_actions \ resume_actions)}

\* ------------------------------------------------- records to be scored

TechNames == <<"python", "docker", "react", "aws", "sql">>

TechUniverse == {TechNames[i] : i \in 1..Min(MaxSkills, Len(TechNames))}

SoftUniverse == {"leadership"}

ActionUniverse == {"led", "built"}

\* The listing of a set of names in the order of `names'.
Listing(S, names) ==
    LET idx == {i \in DOMAIN names : names[i] \in S}
        nth[k \in 1..Cardinality(idx)] ==
            CHOOSE i \in idx : Cardinality({j \in idx : j < i}) = k - 1
    IN  [k \in 1..Cardinality(idx) |-> names[nth[k]]]

TechLists == {Listing(S, TechNames) : S \in SUBSET TechUniverse}

SoftLists == {Listing(S, <<"leadership">>) : S \in SUBSET SoftUniverse}

ActionLists == {Listing(S, <<"led", "built">>) : S \in SUBSET ActionUniverse}

\* The same list in another order and with its last element repeated.
Rearranged(s) == IF s = <<>> THEN s ELSE Reverse(s) \o <<s[Len(s)]>>

Arrange(rec, how) ==
    IF how = "as given" THEN rec ELSE [k \in DOMAIN rec |-> Rearranged(rec[k])]

NoText == <<>>

\* No thread calls the analyzer.
NoThreads ==
    /\ analyzer = <<>>
    /\ passed = <<>>
    /\ threads = <<>>
    /\ returned = <<>>

\* The auto-apply queue and its rate limiter are not in use.
NoAutomation ==
    /\ settings = <<>>
    /\ namespace = {}
    /\ today = 0
    /\ storage = <<>>
    /\ rate_limiter = <<>>
    /\ application_queue = <<>>
    /\ tasks = <<>>
    /\ log = <<>>

InitScore ==
    /\ resume_analysis \in [technical_skills : TechLists,
                             soft_skills : SoftLists,
                             action_words : ActionLists]
    /\ job_analysis \in [technical_skills : TechLists,
                          required_skills : TechLists,
                          soft_skills : SoftLists,
                          action_words : ActionLists]
    /\ arrangement = "none"
    /\ match = [raised |-> FALSE, score |-> -1]
    /\ text = NoText
    /\ call = "none"
    /\ lexicon = "none"
    /\ out = <<>>
    /\ raised = <<"none", "none">>
    /\ remaining = 0
    /\ since = 0
    /\ records = <<>>
    /\ hashing = {}
    /\ NoThreads
    /\ NoAutomation

\* score, breakdown = analyzer.calculate_match_score(resume, job), the lists
\* of both records handed over as given or rearranged.
CalculateMatchScore ==
    /\ arrangement = "none"
    /\ \E how \in {"as given", "rearranged"} :
          /\ arrangement' = how
          /\ match' \in calculate_match_score(Arrange(resume_analysis, how),
                                              Arrange(job_analysis, how))
    /\ UNCHANGED <<resume_analysis, job_analysis, text, call, lexicon, out,
                   raised, remaining, since, records, hashing, engine, automation>>

NextScore == CalculateMatchScore

SpecScore == InitScore /\ [][NextScore]_vars

\* ============================================================== texts

\* The texts the extractors are run on are built from at most this many
\* tokens.
MaxTokens == 2

AsciiLower ==
    <<"a", "b", "c", "d", "e", "f", "g", "h", "i", "j", "k", "l", "m",
      "n", "o", "p", "q", "r", "s", "t", "u", "v", "w", "x", "y", "z">>

AsciiUpper ==
    <<"A", "B", "C", "D", "E", "F", "G", "H", "I", "J", "K", "L", "M",
      "N", "O", "P", "Q", "R", "S", "T", "U", "V", "W", "X", "Y", "Z">>

Digits == <<"0", "1", "2", "3", "4", "5", "6", "7", "8", "9">>

\* LATIN SMALL LIGATURE ST: a lowercase letter, one character, whose
\* uppercase form is the two characters "S" "T".
LigatureST == "U+FB06"

\* The regular expression class \w: letters, digits and the underscore.
WordChars ==
    Range(AsciiLower) \cup Range(AsciiUpper) \cup Range(Digits) \cup {"_", LigatureST}

\* The regular expression class \s.
SpaceChars == {" ", "\t", "\n"}

ToLower == [c \in Range(AsciiUpper) |-> AsciiLower[CHOOSE i \in 1..26 : AsciiUpper[i] = c]]

ToUpper == [c \in Range(AsciiLower) |-> AsciiUpper[CHOOSE i \in 1..26 : AsciiLower[i] = c]]

\* The lowercase form of one character.
lower_char(c) == IF c \in DOMAIN ToLower THEN ToLower[c] ELSE c

\* The uppercase form of one character: a string of one or more characters.
upper_char(c) ==
    IF c \in DOMAIN ToUpper THEN <<ToUpper[c]>>
    ELSE IF c = LigatureST THEN <<"S", "T">>
    ELSE <<c>>

\* str.lower()
str_lower(s) == [i \in 1..Len(s) |-> lower_char(s[i])]

\* str.upper(): the uppercase forms of the characters, one after the other
\* (the text is taken half by half).
RECURSIVE str_upper(_)
str_upper(s) ==
    IF s = <<>> THEN <<>>
    ELSE IF Len(s) = 1 THEN upper_char(s[1])
    ELSE str_upper(SubSeq(s, 1, Len(s) \div 2))
             \o str_upper(SubSeq(s, Len(s) \div 2 + 1, Len(s)))

\* self.action_verbs
action_verbs ==
    <<"achieved", "administered", "analyzed", "architected", "automated",
      "built", "collaborated", "coordinated", "created", "delivered",
      "designed", "developed", "directed", "engineered", "enhanced",
      "established", "executed", "generated", "implemented", "improved",
      "increased", "initiated", "integrated", "launched", "led",
      "maintained", "managed", "optimized", "organized", "performed",
      "planned", "produced", "programmed", "reduced", "redesigned",
      "resolved", "streamlined", "supported", "transformed", "upgraded">>

\* self.technical_skills
technical_skills ==
    <<"python", "java", "javascript", "typescript", "c++", "c#", "ruby",
      "go", "rust", "react", "angular", "vue", "node.js", "express",
      "django", "flask", "spring", "aws", "azure", "gcp", "docker",
      "kubernetes", "jenkins", "gitlab", "github", "sql", "mysql",
      "postgresql", "mongodb", "redis", "elasticsearch",
      "machine learning", "deep learning", "tensorflow", "pytorch",
      "scikit-learn", "data science", "data analysis", "big data",
      "hadoop", "spark", "rest api", "graphql", "microservices", "agile",
      "scrum", "devops", "ci/cd", "git", "linux", "bash", "testing", "tdd",
      "unit testing">>

\* self.soft_skills
soft_skills ==
    <<"leadership", "communication", "teamwork", "problem-solving",
      "analytical", "critical thinking", "creativity", "adaptability",
      "time management", "collaboration", "interpersonal", "presentation",
      "negotiation", "decision making", "conflict resolution", "mentoring",
      "coaching">>

\* The characters of each string literal the source matches against a text:
\* the phrases of the three skill lists, the section headings and the words
\* that end a section, then the literals of the other extractors (the table
\* is joined group by group).
Spelling ==
    (("Python" :> <<"P", "y", "t", "h", "o", "n">>) @@
     ("Go" :> <<"G", "o">>) @@
     ("Led" :> <<"L", "e", "d">>) @@
     ("achieved" :> <<"a", "c", "h", "i", "e", "v", "e", "d">>) @@
     ("administered" :> <<"a", "d", "m", "i", "n", "i", "s", "t", "e", "r", "e", "d">>) @@
     ("analyzed" :> <<"a", "n", "a", "l", "y", "z", "e", "d">>) @@
     ("architected" :> <<"a", "r", "c", "h", "i", "t", "e", "c", "t", "e", "d">>) @@
     ("automated" :> <<"a", "u", "t", "o", "m", "a", "t", "e", "d">>) @@
     ("built" :> <<"b", "u", "i", "l", "t">>) @@
     ("collaborated" :> <<"c", "o", "l", "l", "a", "b", "o", "r", "a", "t", "e", "d">>) @@
     ("coordinated" :> <<"c", "o", "o", "r", "d", "i", "n", "a", "t", "e", "d">>) @@
     ("created" :> <<"c", "r", "e", "a", "t", "e", "d">>) @@
     ("delivered" :> <<"d", "e", "l", "i", "v", "e", "r", "e", "d">>)) @@
    (("designed" :> <<"d", "e", "s", "i", "g", "n", "e", "d">>) @@
     ("developed" :> <<"d", "e", "v", "e", "l", "o", "p", "e", "d">>) @@
     ("directed" :> <<"d", "i", "r", "e", "c", "t", "e", "d">>) @@
     ("engineered" :> <<"e", "n", "g", "i", "n", "e", "e", "r", "e", "d">>) @@
     ("enhanced" :> <<"e", "n", "h", "a", "n", "c", "e", "d">>) @@
     ("established" :> <<"e", "s", "t", "a", "b", "l", "i", "s", "h", "e", "d">>) @@
     ("executed" :> <<"e", "x", "e", "c", "u", "t", "e", "d">>) @@
     ("generated" :> <<"g", "e", "n", "e", "r", "a", "t", "e", "d">>) @@
     ("implemented" :> <<"i", "m", "p", "l", "e", "m", "e", "n", "t", "e", "d">>) @@
     ("improved" :> <<"i", "m", "p", "r", "o", "v", "e", "d">>) @@
     ("increased" :> <<"i", "n", "c", "r", "e", "a", "s", "e", "d">>) @@
     ("initiated" :> <<"i", "n", "i", "t", "i", "a", "t", "e", "d">>) @@
     ("integrated" :> <<"i", "n", "t", "e", "g", "r", "a", "t", "e", "d">>)) @@
    (("launched" :> <<"l", "a", "u", "n", "c", "h", "e", "d">>) @@
     ("led" :> <<"l", "e", "d">>) @@
     ("maintained" :> <<"m", "a", "i", "n", "t", "a", "i", "n", "e", "d">>) @@
     ("managed" :> <<"m", "a", "n", "a", "g", "e", "d">>) @@
     ("optimized" :> <<"o", "p", "t", "i", "m", "i", "z", "e", "d">>) @@
     ("organized" :> <<"o", "r", "g", "a", "n", "i", "z", "e", "d">>) @@
     ("performed" :> <<"p", "e", "r", "f", "o", "r", "m", "e", "d">>) @@
     ("planned" :> <<"p", "l", "a", "n", "n", "e", "d">>) @@
     ("produced" :> <<"p", "r", "o", "d", "u", "c", "e", "d">>) @@
     ("programmed" :> <<"p", "r", "o", "g", "r", "a", "m", "m", "e", "d">>) @@
     ("reduced" :> <<"r", "e", "d", "u", "c", "e", "d">>) @@
     ("redesigned" :> <<"r", "e", "d", "e", "s", "i", "g", "n", "e", "d">>) @@
     ("resolved" :> <<"r", "e", "s", "o", "l", "v", "e", "d">>)) @@
    (("streamlined" :> <<"s", "t", "r", "e", "a", "m", "l", "i", "n", "e", "d">>) @@
     ("supported" :> <<"s", "u", "p", "p", "o", "r", "t", "e", "d">>) @@
     ("transformed" :> <<"t", "r", "a", "n", "s", "f", "o", "r", "m", "e", "d">>) @@
     ("upgraded" :> <<"u", "p", "g", "r", "a", "d", "e", "d">>) @@
     ("python" :> <<"p", "y", "t", "h", "o", "n">>) @@
     ("java" :> <<"j", "a", "v", "a">>) @@
     ("javascript" :> <<"j", "a", "v", "a", "s", "c", "r", "i", "p", "t">>) @@
     ("typescript" :> <<"t", "y", "p", "e", "s", "c", "r", "i", "p", "t">>) @@
     ("c++" :> <<"c", "+", "+">>) @@
     ("c#" :> <<"c", "#">>) @@
     ("ruby" :> <<"r", "u", "b", "y">>) @@
     ("go" :> <<"g", "o">>) @@
     ("rust" :> <<"r", "u", "s", "t">>)) @@
    (("react" :> <<"r", "e", "a", "c", "t">>) @@
     ("angular" :> <<"a", "n", "g", "u", "l", "a", "r">>) @@
     ("vue" :> <<"v", "u", "e">>) @@
     ("node.js" :> <<"n", "o", "d", "e", ".", "j", "s">>) @@
     ("express" :> <<"e", "x", "p", "r", "e", "s", "s">>) @@
     ("django" :> <<"d", "j", "a", "n", "g", "o">>) @@
     ("flask" :> <<"f", "l", "a", "s", "k">>) @@
     ("spring" :> <<"s", "p", "r", "i", "n", "g">>) @@
     ("aws" :> <<"a", "w", "s">>) @@
     ("azure" :> <<"a", "z", "u", "r", "e">>) @@
     ("gcp" :> <<"g", "c", "p">>) @@
     ("docker" :> <<"d", "o", "c", "k", "e", "r">>) @@
     ("kubernetes" :> <<"k", "u", "b", "e", "r", "n", "e", "t", "e", "s">>)) @@
    (("jenkins" :> <<"j", "e", "n", "k", "i", "n", "s">>) @@
     ("gitlab" :> <<"g", "i", "t", "l", "a", "b">>) @@
     ("github" :> <<"g", "i", "t", "h", "u", "b">>) @@
     ("sql" :> <<"s", "q", "l">>) @@
     ("mysql" :> <<"m", "y", "s", "q", "l">>) @@
     ("postgresql" :> <<"p", "o", "s", "t", "g", "r", "e", "s", "q", "l">>) @@
     ("mongodb" :> <<"m", "o", "n", "g", "o", "d", "b">>) @@
     ("redis" :> <<"r", "e", "d", "i", "s">>) @@
     ("elasticsearch" :> <<"e", "l", "a", "s", "t", "i", "c", "s", "e", "a", "r", "c", "h">>) @@
     ("machine learning" :> <<"m", "a", "c", "h", "i", "n", "e", " ", "l", "e", "a", "r", "n", "i", "n", "g">>) @@
     ("deep learning" :> <<"d", "e", "e", "p", " ", "l", "e", "a", "r", "n", "i", "n", "g">>) @@
     ("tensorflow" :> <<"t", "e", "n", "s", "o", "r", "f", "l", "o", "w">>) @@
     ("pytorch" :> <<"p", "y", "t", "o", "r", "c", "h">>)) @@
    (("scikit-learn" :> <<"s", "c", "i", "k", "i", "t", "-", "l", "e", "a", "r", "n">>) @@
     ("data science" :> <<"d", "a", "t", "a", " ", "s", "c", "i", "e", "n", "c", "e">>) @@
     ("data analysis" :> <<"d", "a", "t", "a", " ", "a", "n", "a", "l", "y", "s", "i", "s">>) @@
     ("big data" :> <<"b", "i", "g", " ", "d", "a", "t", "a">>) @@
     ("hadoop" :> <<"h", "a", "d", "o", "o", "p">>) @@
     ("spark" :> <<"s", "p", "a", "r", "k">>) @@
     ("rest api" :> <<"r", "e", "s", "t", " ", "a", "p", "i">>) @@
     ("graphql" :> <<"g", "r", "a", "p", "h", "q", "l">>) @@
     ("microservices" :> <<"m", "i", "c", "r", "o", "s", "e", "r", "v", "i", "c", "e", "s">>) @@
     ("agile" :> <<"a", "g", "i", "l", "e">>) @@
     ("scrum" :> <<"s", "c", "r", "u", "m">>) @@
     ("devops" :> <<"d", "e", "v", "o", "p", "s">>) @@
     ("ci/cd" :> <<"c", "i", "/", "c", "d">>)) @@
    (("git" :> <<"g", "i", "t">>) @@
     ("linux" :> <<"l", "i", "n", "u", "x">>) @@
     ("bash" :> <<"b", "a", "s", "h">>) @@
     ("testing" :> <<"t", "e", "s", "t", "i", "n", "g">>) @@
     ("tdd" :> <<"t", "d", "d">>) @@
     ("unit testing" :> <<"u", "n", "i", "t", " ", "t", "e", "s", "t", "i", "n", "g">>) @@
     ("leadership" :> <<"l", "e", "a", "d", "e", "r", "s", "h", "i", "p">>) @@
     ("communication" :> <<"c", "o", "m", "m", "u", "n", "i", "c", "a", "t", "i", "o", "n">>) @@
     ("teamwork" :> <<"t", "e", "a", "m", "w", "o", "r", "k">>) @@
     ("problem-solving" :> <<"p", "r", "o", "b", "l", "e", "m", "-", "s", "o", "l", "v", "i", "n", "g">>) @@
     ("analytical" :> <<"a", "n", "a", "l", "y", "t", "i", "c", "a", "l">>) @@
     ("critical thinking" :> <<"c", "r", "i", "t", "i", "c", "a", "l", " ", "t", "h", "i", "n", "k", "i", "n", "g">>) @@
     ("creativity" :> <<"c", "r", "e", "a", "t", "i", "v", "i", "t", "y">>)) @@
    (("adaptability" :> <<"a", "d", "a", "p", "t", "a", "b", "i", "l", "i", "t", "y">>) @@
     ("time management" :> <<"t", "i", "m", "e", " ", "m", "a", "n", "a", "g", "e", "m", "e", "n", "t">>) @@
     ("collaboration" :> <<"c", "o", "l", "l", "a", "b", "o", "r", "a", "t", "i", "o", "n">>) @@
     ("interpersonal" :> <<"i", "n", "t", "e", "r", "p", "e", "r", "s", "o", "n", "a", "l">>) @@
     ("presentation" :> <<"p", "r", "e", "s", "e", "n", "t", "a", "t", "i", "o", "n">>) @@
     ("negotiation" :> <<"n", "e", "g", "o", "t", "i", "a", "t", "i", "o", "n">>) @@
     ("decision making" :> <<"d", "e", "c", "i", "s", "i", "o", "n", " ", "m", "a", "k", "i", "n", "g">>) @@
     ("conflict resolution" :> <<"c", "o", "n", "f", "l", "i", "c", "t", " ", "r", "e", "s", "o", "l", "u", "t", "i", "o", "n">>) @@
     ("mentoring" :> <<"m", "e", "n", "t", "o", "r", "i", "n", "g">>) @@
     ("coaching" :> <<"c", "o", "a", "c", "h", "i", "n", "g">>) @@
     ("requirements:" :> <<"r", "e", "q", "u", "i", "r", "e", "m", "e", "n", "t", "s", ":">>) @@
     ("requirement:" :> <<"r", "e", "q", "u", "i", "r", "e", "m", "e", "n", "t", ":">>) @@
     ("required:" :> <<"r", "e", "q", "u", "i", "r", "e", "d", ":">>)) @@
    (("must have:" :> <<"m", "u", "s", "t", " ", "h", "a", "v", "e", ":">>) @@
     ("preferred:" :> <<"p", "r", "e", "f", "e", "r", "r", "e", "d", ":">>) @@
     ("nice to have:" :> <<"n", "i", "c", "e", " ", "t", "o", " ", "h", "a", "v", "e", ":">>) @@
     ("bonus:" :> <<"b", "o", "n", "u", "s", ":">>) @@
     ("responsibilities" :> <<"r", "e", "s", "p", "o", "n", "s", "i", "b", "i", "l", "i", "t", "i", "e", "s">>) @@
     ("qualifications" :> <<"q", "u", "a", "l", "i", "f", "i", "c", "a", "t", "i", "o", "n", "s">>) @@
     ("preferred" :> <<"p", "r", "e", "f", "e", "r", "r", "e", "d">>) @@
     ("requirements" :> <<"r", "e", "q", "u", "i", "r", "e", "m", "e", "n", "t", "s">>) @@
     ("bachelor" :> <<"b", "a", "c", "h", "e", "l", "o", "r">>) @@
     ("master" :> <<"m", "a", "s", "t", "e", "r">>) @@
     ("phd" :> <<"p", "h", "d">>) @@
     ("degree" :> <<"d", "e", "g", "r", "e", "e">>) @@
     ("bs" :> <<"b", "s">>)) @@
    (("ms" :> <<"m", "s">>) @@
     ("ba" :> <<"b", "a">>) @@
     ("ma" :> <<"m", "a">>) @@
     ("software development" :> <<"s", "o", "f", "t", "w", "a", "r", "e", " ", "d", "e", "v", "e", "l", "o", "p", "m", "e", "n", "t">>) @@
     ("full stack" :> <<"f", "u", "l", "l", " ", "s", "t", "a", "c", "k">>) @@
     ("front end" :> <<"f", "r", "o", "n", "t", " ", "e", "n", "d">>) @@
     ("back end" :> <<"b", "a", "c", "k", " ", "e", "n", "d">>) @@
     ("cloud computing" :> <<"c", "l", "o", "u", "d", " ", "c", "o", "m", "p", "u", "t", "i", "n", "g">>) @@
     ("agile methodology" :> <<"a", "g", "i", "l", "e", " ", "m", "e", "t", "h", "o", "d", "o", "l", "o", "g", "y">>) @@
     ("cross-functional team" :> <<"c", "r", "o", "s", "s", "-", "f", "u", "n", "c", "t", "i", "o", "n", "a", "l", " ", "t", "e", "a", "m">>) @@
     ("microservices architecture" :> <<"m", "i", "c", "r", "o", "s", "e", "r", "v", "i", "c", "e", "s", " ", "a", "r", "c", "h", "i", "t", "e", "c", "t", "u", "r", "e">>) @@
     ("ci/cd pipeline" :> <<"c", "i", "/", "c", "d", " ", "p", "i", "p", "e", "l", "i", "n", "e">>) @@
     ("version control" :> <<"v", "e", "r", "s", "i", "o", "n", " ", "c", "o", "n", "t", "r", "o", "l">>)) @@
    (("problem solving" :> <<"p", "r", "o", "b", "l", "e", "m", " ", "s", "o", "l", "v", "i", "n", "g">>) @@
     ("team player" :> <<"t", "e", "a", "m", " ", "p", "l", "a", "y", "e", "r">>) @@
     ("self-motivated" :> <<"s", "e", "l", "f", "-", "m", "o", "t", "i", "v", "a", "t", "e", "d">>) @@
     ("increase" :> <<"i", "n", "c", "r", "e", "a", "s", "e">>) @@
     ("improvement" :> <<"i", "m", "p", "r", "o", "v", "e", "m", "e", "n", "t">>) @@
     ("reduction" :> <<"r", "e", "d", "u", "c", "t", "i", "o", "n">>) @@
     ("growth" :> <<"g", "r", "o", "w", "t", "h">>) @@
     ("by" :> <<"b", "y">>) @@
     ("year" :> <<"y", "e", "a", "r">>))

\* ---------------------------------------------------------- _extract_skills

\* CaseEq with a slip: the flag re.IGNORECASE is missing.
CaseEqExact(c, p) == c = p

\* Whether character c of a text matches character p of a pattern under
\* re.IGNORECASE.
CaseEq(c, p) == lower_char(c) = lower_char(p)

\* Whether the characters of `literal' stand in text t from position i on.
LiteralAt(t, i, literal) ==
    /\ i + Len(literal) - 1 <= Len(t)
    /\ \A k \in 1..Len(literal) : CaseEq(t[i + k - 1], literal[k])

IsWordAt(t, i) == i >= 1 /\ i <= Len(t) /\ t[i] \in WordChars

\* \b before position i of t (i = Len(t) + 1: at the end): exactly one of
\* the characters on its two sides is a word character.
WordBoundary(t, i) == IsWordAt(t, i - 1) # IsWordAt(t, i)

\* re.search(r'\b' + re.escape(skill) + r'\b', text, re.IGNORECASE)
SkillSearch(t, skill) ==
    LET literal == Spelling[skill]
    IN  \E i \in 1..(Len(t) - Len(literal) + 1) :
            /\ LiteralAt(t, i, literal)
            /\ WordBoundary(t, i)
            /\ WordBoundary(t, i + Len(literal))

\* _extract_skills with a slip: each found skill is put in front of the list.
_extract_skills_prepending(t, skill_list) ==
    Reverse(SelectSeq(skill_list, LAMBDA skill : SkillSearch(t, skill)))

\* _extract_skills(text, skill_list): the loop over skill_list, which appends
\* each skill that re.search finds in the text; found is the list of the
\* skills found, in the order of skill_list.
_extract_skills(t, skill_list) ==
    SelectSeq(skill_list, LAMBDA skill : SkillSearch(t, skill))


\* ------------------------------- _extract_required / _preferred_skills

\* `$' at position i of t: at the end, or before a newline that ends t.
AtEnd(t, i) == i = Len(t) + 1 \/ (i = Len(t) /\ t[i] = "\n")

\* The heading patterns of _extract_required_skills, in the order tried; each
\* is the list of the literals it matches (`requirements?:' matches two).
required_headings ==
    <<<<"requirements:", "requirement:">>, <<"required:">>, <<"must have:">>>>

required_terminators == <<"responsibilities", "qualifications", "preferred">>

\* The heading patterns of _extract_preferred_skills.
preferred_headings == <<<<"preferred:">>, <<"nice to have:">>, <<"bonus:">>>>

preferred_terminators == <<"responsibilities", "requirements">>

\* Where `heading' matches at position i of t with at least one character
\* after it (`.+?' takes one or more): the position after the heading, or 0.
HeadingEnd(t, i, heading) ==
    LET fits == {k \in DOMAIN heading :
                     /\ LiteralAt(t, i, Spelling[heading[k]])
                     /\ i + Len(Spelling[heading[k]]) <= Len(t)}
    IN  IF fits = {} THEN 0
        ELSE LET k == CHOOSE k \in fits : \A other \in fits : k <= other
             IN  i + Len(Spelling[heading[k]])

\* Whether the lookahead (?=terminators|$) holds at position j of t.
SectionStop(t, j, terminators) ==
    \/ AtEnd(t, j)
    \/ \E x \in DOMAIN terminators : LiteralAt(t, j, Spelling[terminators[x]])

\* What `(.+?)' takes from position `from' on: one character, then as few
\* more as lead to a position where the lookahead holds.
SectionBody(t, from, terminators) ==
    SubSeq(t, from,
           (CHOOSE j \in (from + 1)..(Len(t) + 1) :
                /\ SectionStop(t, j, terminators)
                /\ \A k \in (from + 1)..(j - 1) : ~SectionStop(t, k, terminators)) - 1)

\* match.group(1) of re.search(heading + r'(.+?)(?=' + terminators + r'|$)',
\* t, re.DOTALL | re.IGNORECASE): the text after the leftmost heading, up to
\* the first later position where a terminator starts or the text ends; the
\* empty text when the pattern matches nowhere.
SectionSearch(t, heading, terminators) ==
    LET starts == {i \in 1..Len(t) : HeadingEnd(t, i, heading) # 0}
    IN  IF starts = {} THEN <<>>
        ELSE SectionBody(t,
                         HeadingEnd(t, CHOOSE i \in starts : \A other \in starts : i <= other,
                                    heading),
                         terminators)

\* The section of the first pattern, in the order of `headings', that
\* matches (section \in {e} names the value of e).
RECURSIVE FirstSection(_, _, _)
FirstSection(t, headings, terminators) ==
    IF headings = <<>> THEN <<>>
    ELSE CHOOSE result \in
             {IF section # <<>> THEN section
              ELSE FirstSection(t, Tail(headings), terminators) :
                  section \in {SectionSearch(t, Head(headings), terminators)}} : TRUE

\* _extract_required_skills with a slip: without a section the whole text
\* is searched.
_extract_required_skills_of_text(t) ==
    CHOOSE result \in
        {IF required_section # <<>>
         THEN _extract_skills(required_section, technical_skills)
         ELSE _extract_skills(str_lower(t), technical_skills) :
             required_section \in
                 {FirstSection(str_lower(t), required_headings, required_terminators)}} : TRUE

\* _extract_required_skills(text)
_extract_required_skills(t) ==
    CHOOSE result \in
        {IF required_section # <<>>
         THEN _extract_skills(required_section, technical_skills)
         ELSE <<>> :
             required_section \in
                 {FirstSection(str_lower(t), required_headings, required_terminators)}} : TRUE

\* _extract_preferred_skills(text)
_extract_preferred_skills(t) ==
    CHOOSE result \in
        {IF preferred_section # <<>>
         THEN _extract_skills(preferred_section, technical_skills)
         ELSE <<>> :
             preferred_section \in
                 {FirstSection(str_lower(t), preferred_headings, preferred_terminators)}} : TRUE

\* ------------------------------------------------- the other extractors

\* `keyword in text': the characters of the keyword stand somewhere in t.
Contains(t, keyword) ==
    LET literal == Spelling[keyword]
    IN  \E i \in 1..(Len(t) - Len(literal) + 1) :
            \A k \in 1..Len(literal) : t[i + k - 1] = literal[k]

\* Keeps the elements of a list that stand in the text, in list order.
ContainedOf(t, keywords) == SelectSeq(keywords, LAMBDA keyword : Contains(t, keyword))

\* The position after the longest run of characters of `class' from i on.
RunEnd(t, i, class) ==
    LET stops == {j \in i..Len(t) : t[j] \notin class}
    IN  IF stops = {} THEN Len(t) + 1
        ELSE CHOOSE j \in stops : \A other \in stops : j <= other

\* int() of a string of digits.
RECURSIVE IntOf(_)
IntOf(ds) ==
    IF ds = <<>> THEN 0
    ELSE 10 * IntOf(SubSeq(ds, 1, Len(ds) - 1))
         + ((CHOOSE d \in 1..10 : Digits[d] = ds[Len(ds)]) - 1)

\* The numbers captured by re.findall(r'(\d+)\+?\s*years?', text,
\* re.IGNORECASE): each run of digits followed by an optional `+', any
\* white space and `year'.
YearsFound(t) ==
    {IntOf(SubSeq(t, i, RunEnd(t, i, Range(Digits)) - 1)) :
        i \in {i \in 1..Len(t) :
                 /\ t[i] \in Range(Digits)
                 /\ ~(i > 1 /\ t[i - 1] \in Range(Digits))
                 /\ LET d == RunEnd(t, i, Range(Digits))
                        p == IF d <= Len(t) /\ t[d] = "+" THEN d + 1 ELSE d
                    IN  LiteralAt(t, RunEnd(t, p, SpaceChars), Spelling["year"])}}

\* _extract_experience_years(text)
_extract_experience_years(t) ==
    LET matches == YearsFound(t)
    IN  IF matches # {}
        THEN CHOOSE m \in matches : \A other \in matches : m >= other
        ELSE 0

education_keywords == <<"bachelor", "master", "phd", "degree", "bs", "ms", "ba", "ma">>

\* _extract_education(text): list(set(found)), in any order.
_extract_education(t) ==
    Orders(ContainedOf(str_lower(t), education_keywords))

key_phrases_patterns ==
    <<"machine learning", "data science", "software development",
      "full stack", "front end", "back end", "cloud computing",
      "agile methodology", "cross-functional team", "rest api",
      "microservices architecture", "ci/cd pipeline", "version control",
      "problem solving", "team player", "self-motivated">>

\* _extract_key_phrases(text)
_extract_key_phrases(t) == ContainedOf(str_lower(t), key_phrases_patterns)

\* Where one or more characters of `class' from i on end, or 0 if there is
\* none at i.
Some(t, i, class) ==
    IF i = 0 \/ i > Len(t) \/ t[i] \notin class THEN 0 ELSE RunEnd(t, i, class)

\* Where `literal' from i on ends, or 0 if it does not stand at i.
Lit(t, i, literal) ==
    IF i = 0 \/ ~LiteralAt(t, i, literal) THEN 0 ELSE i + Len(literal)

\* The first of the words `increase', `improvement', `reduction', `growth' at i.
GainWord(t, i) ==
    LET ends == <<Lit(t, i, Spelling["increase"]), Lit(t, i, Spelling["improvement"]),
                  Lit(t, i, Spelling["reduction"]), Lit(t, i, Spelling["growth"])>>
        hits == {k \in 1..4 : ends[k] # 0}
    IN  IF hits = {} THEN 0 ELSE ends[CHOOSE k \in hits : \A other \in hits : k <= other]

\* The achievement patterns: where a match of pattern n that starts at
\* position i of t ends, or 0 when there is none.
\*   1  \d+%\s+(?:increase|improvement|reduction|growth)
\*   2  increased\s+\w+\s+by\s+\d+%      3  reduced...      4  improved...
AchievementEnd(t, i, n) ==
    IF n = 1
    THEN GainWord(t, Some(t, Lit(t, Some(t, i, Range(Digits)), <<"%">>), SpaceChars))
    ELSE LET verb == <<"increased", "reduced", "improved">>[n - 1]
             word == Some(t, Some(t, Lit(t, i, Spelling[verb]), SpaceChars), WordChars)
             by == Lit(t, Some(t, word, SpaceChars), Spelling["by"])
         IN  Lit(t, Some(t, Some(t, by, SpaceChars), Range(Digits)), <<"%">>)

\* re.findall(pattern n, text, re.IGNORECASE) from position i on: the matches
\* from left to right, each search resuming where the last match ended.
RECURSIVE FindAchievements(_, _, _)
FindAchievements(t, i, n) ==
    LET starts == {j \in i..Len(t) : AchievementEnd(t, j, n) # 0}
    IN  IF starts = {} THEN <<>>
        ELSE LET start == CHOOSE j \in starts : \A other \in starts : j <= other
                 end == AchievementEnd(t, start, n)
             IN  <<SubSeq(t, start, end - 1)>> \o FindAchievements(t, end, n)

\* _extract_achievements with a slip: a match is kept once only.
_extract_achievements_once(t) ==
    Distinct(FindAchievements(t, 1, 1) \o FindAchievements(t, 1, 2)
                 \o FindAchievements(t, 1, 3) \o FindAchievements(t, 1, 4))

\* _extract_achievements(text)
_extract_achievements(t) ==
    FindAchievements(t, 1, 1) \o FindAchievements(t, 1, 2)
        \o FindAchievements(t, 1, 3) \o FindAchievements(t, 1, 4)

\* ------------------------------------------------------------ Analyzer

Count(s, x) == Cardinality({i \in DOMAIN s : s[i] = x})

\* The keys that stand n times in the list s, in the order of `keys'.
WithCount(keys, s, n) == SelectSeq(keys, LAMBDA key : Count(s, key) = n)

\* The keys of Counter(s) by descending count, equal counts in the order in
\* which the keys first appeared, from count n down.
RECURSIVE ByCount(_, _)
ByCount(s, n) ==
    IF n = 0 THEN <<>> ELSE WithCount(Distinct(s), s, n) \o ByCount(s, n - 1)

\* keyword_frequency with a slip: most_common() without the number.
keyword_frequency_of_all(keywords) ==
    LET ordered == ByCount(keywords, Len(keywords))
    IN  [i \in 1..Len(ordered) |-> <<ordered[i], Count(keywords, ordered[i])>>]

\* dict(Counter(keywords).most_common(20)), as the list of its (key, count)
\* items in dictionary order.
keyword_frequency(keywords) ==
    LET ordered == ByCount(keywords, Len(keywords))
    IN  [i \in 1..Min(20, Len(ordered)) |-> <<ordered[i], Count(keywords, ordered[i])>>]

\* Keywords with a slip: the action words are left out.
KeywordsWithoutActions(technical, soft, action_words) == technical \o soft

\* keywords = technical_skills + soft_skills + action_words
Keywords(technical, soft, action_words) == technical \o soft \o action_words

\* The record built from the results of the extractors, for each order of
\* all_keywords = list(set(keywords)).
JobRecords(required_skills, preferred_skills, technical, soft, action_words, experience_years, education_requirements, key_phrases) ==
    {[required_skills |-> required_skills,
      preferred_skills |-> preferred_skills,
      technical_skills |-> technical,
      soft_skills |-> soft,
      action_words |-> action_words,
      experience_years |-> experience_years,
      education_requirements |-> education_requirements,
      key_phrases |-> key_phrases,
      keyword_frequency |-> keyword_frequency(keywords),
      all_keywords |-> all] :
     keywords \in {Keywords(technical, soft, action_words)},
     all \in Orders(Keywords(technical, soft, action_words))}

\* analyze_job_description(description): the records it can return, one for
\* each order of the two list(set(...)) fields.
analyze_job_description(description) ==
    UNION {JobRecords(required_skills, preferred_skills, technical, soft,
                      action_words, experience_years, education, key_phrases) :
           required_skills \in {_extract_required_skills(description)},
           preferred_skills \in {_extract_preferred_skills(description)},
           technical \in {_extract_skills(str_lower(description), technical_skills)},
           soft \in {_extract_skills(str_lower(description), soft_skills)},
           action_words \in {_extract_skills(str_lower(description), action_verbs)},
           experience_years \in {_extract_experience_years(description)},
           education \in _extract_education(description),
           key_phrases \in {_extract_key_phrases(description)}}

ResumeRecords(technical, soft, action_words, achievements) ==
    {[technical_skills |-> technical,
      soft_skills |-> soft,
      action_words |-> action_words,
      achievements |-> achievements,
      keyword_frequency |-> keyword_frequency(keywords),
      all_keywords |-> all] :
     keywords \in {Keywords(technical, soft, action_words)},
     all \in Orders(Keywords(technical, soft, action_words))}

\* analyze_resume(resume_text)
analyze_resume(resume_text) ==
    UNION {ResumeRecords(technical, soft, action_words, achievements) :
           technical \in {_extract_skills(str_lower(resume_text), technical_skills)},
           soft \in {_extract_skills(str_lower(resume_text), soft_skills)},
           action_words \in {_extract_skills(str_lower(resume_text), action_verbs)},
           achievements \in {_extract_achievements(resume_text)}}

\* ------------------------------------------- texts and the calls on them

\* The pieces the texts are built from.
Tokens ==
    <<Spelling["go"], <<"i", "n", "g">>, <<" ">>, Spelling["c++"],
      <<"G", "I", "T", " ">>, <<"r", "u", LigatureST>>,
      <<" ">> \o Spelling["led"], <<" ">> \o Spelling["coaching"],
      Spelling["requirement:"], <<"R">> \o Tail(Spelling["requirements:"]),
      Spelling["must have:"], <<"P">> \o Tail(Spelling["preferred:"]),
      Spelling["bonus:"], Spelling["qualifications"]>>

RECURSIVE Flatten(_)
Flatten(ss) == IF ss = <<>> THEN <<>> ELSE Head(ss) \o Flatten(Tail(ss))

\* Every text of at most MaxTokens tokens.
Texts ==
    UNION {{Flatten(ts) : ts \in [1..n -> Range(Tokens)]} : n \in 0..MaxTokens}

MaxPieces == 3

\* The pieces of the texts with sections: headings, terminators and skills.
SectionTokens ==
    <<Spelling["required:"], Spelling["bonus:"], Spelling["qualifications"],
      Spelling["requirements"], <<" ">> \o Spelling["go"] \o <<" ">>>>

\* Every text of at most MaxPieces of these pieces.
SectionTexts ==
    UNION {{Flatten(ts) : ts \in [1..n -> Range(SectionTokens)]} :
               n \in 0..MaxPieces}

\* The pieces of the texts in which a section ends right behind a skill.
CutTokens ==
    <<Spelling["required:"], Spelling["bonus:"], Spelling["go"],
      Spelling["preferred"], Spelling["requirements"]>>

\* Every text of at most MaxPieces of these pieces.
CutTexts ==
    UNION {{Flatten(ts) : ts \in [1..n -> Range(CutTokens)]} :
               n \in 0..MaxPieces}

\* The pieces of the texts with achievements.
AchievementTokens ==
    <<<<"1", "0", "%", " ">> \o Spelling["growth"] \o <<" ">>,
      <<"R">> \o Tail(Spelling["reduced"]) \o <<" ", "c", "o", "s", "t", " ">>
          \o Spelling["by"] \o <<" ", "5", "%", " ">>,
      Spelling["improved"] \o <<" ", "b", "y", " ", "b", "y", " ", "7", "%">>>>

\* "Increased sales by 30%. Managed a team of 5."
SalesResume ==
    <<"I">> \o Tail(Spelling["increased"]) \o <<" ", "s", "a", "l", "e", "s", " ">>
        \o Spelling["by"] \o <<" ", "3", "0", "%", ".", " ">>
        \o <<"M", "a", "n", "a", "g", "e", "d", " ", "a", " ", "t", "e", "a", "m",
              " ", "o", "f", " ", "5", ".">>

AchievementTexts ==
    {SalesResume} \cup
    UNION {{Flatten(ts) : ts \in [1..n -> Range(AchievementTokens)]} :
               n \in 0..MaxPieces}

\* Lexicon words for texts with more keywords than keyword_frequency keeps.
ManyKeywords ==
    <<"go", "vue", "aws", "gcp", "sql", "git", "tdd", "java", "ruby", "rust", "bash",
      "led", "built", "react", "flask", "azure", "mysql", "redis", "spark", "scrum",
      "linux", "agile">>

\* The names joined by " ".
RECURSIVE SpaceJoined(_)
SpaceJoined(names) ==
    IF names = <<>> THEN <<>>
    ELSE IF Len(names) = 1 THEN Spelling[names[1]]
    ELSE SpaceJoined(SubSeq(names, 1, Len(names) \div 2)) \o <<" ">>
             \o SpaceJoined(SubSeq(names, Len(names) \div 2 + 1, Len(names)))

\* The texts of the first 20, 21 and 22 of these words.
KeywordTexts == {SpaceJoined(SubSeq(ManyKeywords, 1, n)) : n \in 20..Len(ManyKeywords)}

MaxListed == 2

\* The orders of at most MaxListed distinct names out of `names'.
Listed(names) ==
    UNION {{l \in [1..n -> Range(names)] : \A i, j \in 1..n : i # j => l[i] # l[j]} :
               n \in 0..MaxListed}

\* The names joined by ", ".
RECURSIVE CommaJoined(_)
CommaJoined(names) ==
    IF names = <<>> THEN <<>>
    ELSE IF Len(names) = 1 THEN Spelling[names[1]]
    ELSE Spelling[names[1]] \o <<",", " ">> \o CommaJoined(Tail(names))

\* The job description "Requirements: <a>. Preferred: <b>."
JobDescription(a, b) ==
    <<"R">> \o Tail(Spelling["requirements:"]) \o <<" ">> \o CommaJoined(a)
        \o <<".", " ", "P">> \o Tail(Spelling["preferred:"]) \o <<" ">> \o CommaJoined(b)
        \o <<".">>

RequiredNames == <<"python", "aws", "c++">>

PreferredNames == <<"docker", "aws">>

JobDescriptions ==
    {JobDescription(a, b) : a \in Listed(RequiredNames), b \in Listed(PreferredNames)}

SkillLists ==
    [technical_skills |-> technical_skills,
     soft_skills |-> soft_skills,
     action_verbs |-> action_verbs]

\* The absent text, Python's None.
None == <<"None">>

\* Raises with a slip: the empty text is refused like None.
RaisesOnEmpty(method, t) ==
    IF t # None /\ t # <<>> THEN "none"
    ELSE IF method \in {"_extract_skills", "_extract_experience_years",
                        "_extract_achievements"}
         THEN "TypeError"
         ELSE "AttributeError"

\* The exception a method raises on the text t, "none" when it returns:
\* None has no lower(), and re.search and re.findall take no None.
Raises(method, t) ==
    IF t # None THEN "none"
    ELSE IF method \in {"_extract_skills", "_extract_experience_years",
                        "_extract_achievements"}
         THEN "TypeError"
         ELSE "AttributeError"

\* ListOfSet with a slip: the strings are hashed anew on every call.
ListOfSetRehashed(s, known) == Orders(s)

\* list(set(s)) in a process that has listed the sets `known': the order
\* follows from the hashes of the strings, which are fixed while the process
\* lives.
ListOfSet(s, known) ==
    IF \E l \in known : Range(l) = Range(s)
    THEN {l \in known : Range(l) = Range(s)}
    ELSE Orders(s)

\* The texts on which several calls are made.
\* "ms ba go led" and "required:go"
CallTexts ==
    {Spelling["ms"] \o <<" ">> \o Spelling["ba"] \o <<" ">> \o Spelling["go"]
         \o <<" ">> \o Spelling["led"],
     Spelling["required:"] \o Spelling["go"]}

MaxCalls == 3

NotCalled ==
    /\ call = "none"
    /\ lexicon = "none"
    /\ out = <<>>
    /\ raised = <<"none", "none">>
    /\ since = 0
    /\ records = <<>>
    /\ hashing = {}
    /\ NoThreads
    /\ NoAutomation

NotScored ==
    /\ resume_analysis = [technical_skills |-> <<>>, soft_skills |-> <<>>,
                          action_words |-> <<>>]
    /\ job_analysis = [technical_skills |-> <<>>, required_skills |-> <<>>,
                       soft_skills |-> <<>>, action_words |-> <<>>]
    /\ arrangement = "none"
    /\ match = [raised |-> FALSE, score |-> -1]

\* One call on each text.
InitText ==
    /\ text \in Texts \cup SectionTexts \cup CutTexts \cup JobDescriptions
                \cup AchievementTexts \cup KeywordTexts \cup {None}
    /\ remaining = 1
    /\ NotCalled
    /\ NotScored

\* MaxCalls calls, one after the other in one process, on each text.
InitCalls ==
    /\ text \in CallTexts
    /\ remaining = MaxCalls
    /\ NotCalled
    /\ NotScored

unscored == <<resume_analysis, job_analysis, arrangement, match>>

\* A call of `method' begins.
Called(method) ==
    /\ remaining > 0
    /\ remaining' = remaining - 1
    /\ since' = IF method = "analyze_job_description" THEN 0 ELSE since + 1

\* The call of `method' on the text raises.
Raise(method) ==
    /\ Raises(method, text) # "none"
    /\ raised' = <<method, Raises(method, text)>>
    /\ UNCHANGED <<call, lexicon, out, records, hashing>>

\* found = analyzer._extract_skills(text, skill_list)
ExtractSkills ==
    /\ Called("_extract_skills")
    /\ \/ Raise("_extract_skills")
       \/ /\ Raises("_extract_skills", text) = "none"
          /\ \E name \in DOMAIN SkillLists :
                /\ lexicon' = name
                /\ out' = [found |-> _extract_skills(text, SkillLists[name])]
          /\ call' = "_extract_skills"
          /\ UNCHANGED <<raised, records, hashing>>
    /\ UNCHANGED <<text, unscored, engine, automation>>

\* found_upper = analyzer._extract_skills(text.upper(), skill_list), after
\* the call on the text itself.
ExtractSkillsUpper ==
    /\ call = "_extract_skills"
    /\ out' = [found |-> out.found,
               found_upper |-> _extract_skills(str_upper(text), SkillLists[lexicon])]
    /\ call' = "_extract_skills(upper)"
    /\ UNCHANGED <<text, lexicon, unscored, raised, remaining, since, records, hashing,
                   engine, automation>>

\* analyzer._extract_required_skills(text)
ExtractRequiredSkills ==
    /\ Called("_extract_required_skills")
    /\ \/ Raise("_extract_required_skills")
       \/ /\ Raises("_extract_required_skills", text) = "none"
          /\ out' = [skills |-> _extract_required_skills(text)]
          /\ call' = "_extract_required_skills"
          /\ UNCHANGED <<lexicon, raised, records, hashing>>
    /\ UNCHANGED <<text, unscored, engine, automation>>

\* analyzer._extract_preferred_skills(text)
ExtractPreferredSkills ==
    /\ Called("_extract_preferred_skills")
    /\ \/ Raise("_extract_preferred_skills")
       \/ /\ Raises("_extract_preferred_skills", text) = "none"
          /\ out' = [skills |-> _extract_preferred_skills(text)]
          /\ call' = "_extract_preferred_skills"
          /\ UNCHANGED <<lexicon, raised, records, hashing>>
    /\ UNCHANGED <<text, unscored, engine, automation>>

\* analyzer._extract_experience_years(text)
ExtractExperienceYears ==
    /\ Called("_extract_experience_years")
    /\ \/ Raise("_extract_experience_years")
       \/ /\ Raises("_extract_experience_years", text) = "none"
          /\ out' = [years |-> _extract_experience_years(text)]
          /\ call' = "_extract_experience_years"
          /\ UNCHANGED <<lexicon, raised, records, hashing>>
    /\ UNCHANGED <<text, unscored, engine, automation>>

\* analyzer._extract_education(text)
ExtractEducation ==
    /\ Called("_extract_education")
    /\ \/ Raise("_extract_education")
       \/ /\ Raises("_extract_education", text) = "none"
          /\ \E found \in _extract_education(text) :
                /\ found \in ListOfSet(found, hashing)
                /\ out' = [education |-> found]
                /\ hashing' = hashing \cup {found}
          /\ call' = "_extract_education"
          /\ UNCHANGED <<lexicon, raised, records>>
    /\ UNCHANGED <<text, unscored, engine, automation>>

\* analyzer._extract_achievements(text)
ExtractAchievements ==
    /\ Called("_extract_achievements")
    /\ \/ Raise("_extract_achievements")
       \/ /\ Raises("_extract_achievements", text) = "none"
          /\ out' = [achievements |-> _extract_achievements(text)]
          /\ call' = "_extract_achievements"
          /\ UNCHANGED <<lexicon, raised, records, hashing>>
    /\ UNCHANGED <<text, unscored, engine, automation>>

\* analyzer._extract_key_phrases(text)
ExtractKeyPhrases ==
    /\ Called("_extract_key_phrases")
    /\ \/ Raise("_extract_key_phrases")
       \/ /\ Raises("_extract_key_phrases", text) = "none"
          /\ out' = [key_phrases |-> _extract_key_phrases(text)]
          /\ call' = "_extract_key_phrases"
          /\ UNCHANGED <<lexicon, raised, records, hashing>>
    /\ UNCHANGED <<text, unscored, engine, automation>>

\* analyzer.analyze_job_description(text)
AnalyzeJobDescription ==
    /\ Called("analyze_job_description")
    /\ \/ Raise("analyze_job_description")
       \/ /\ Raises("analyze_job_description", text) = "none"
          /\ \E record \in analyze_job_description(text) :
                /\ record.all_keywords \in ListOfSet(record.all_keywords, hashing)
                /\ record.education_requirements
                       \in ListOfSet(record.education_requirements, hashing)
                /\ out' = record
                /\ records' = Append(records, [record |-> record, after |-> since])
                /\ hashing' = hashing \cup {record.all_keywords,
                                            record.education_requirements}
          /\ call' = "analyze_job_description"
          /\ UNCHANGED <<lexicon, raised>>
    /\ UNCHANGED <<text, unscored, engine, automation>>

\* analyzer.analyze_resume(text)
AnalyzeResume ==
    /\ Called("analyze_resume")
    /\ \/ Raise("analyze_resume")
       \/ /\ Raises("analyze_resume", text) = "none"
          /\ \E record \in analyze_resume(text) :
                /\ record.all_keywords \in ListOfSet(record.all_keywords, hashing)
                /\ out' = record
                /\ hashing' = hashing \cup {record.all_keywords}
          /\ call' = "analyze_resume"
          /\ UNCHANGED <<lexicon, raised, records>>
    /\ UNCHANGED <<text, unscored, engine, automation>>

NextText ==
    \/ ExtractSkills
    \/ ExtractSkillsUpper
    \/ ExtractRequiredSkills
    \/ ExtractPreferredSkills
    \/ ExtractExperienceYears
    \/ ExtractEducation
    \/ ExtractAchievements
    \/ ExtractKeyPhrases
    \/ AnalyzeJobDescription
    \/ AnalyzeResume

SpecText == InitText /\ [][NextText]_vars

\* The calls on the text and, at any time between them, the call of
\* calculate_match_score.
NextCalls ==
    \/ NextText
    \/ CalculateMatchScore

SpecCalls == InitCalls /\ [][NextCalls]_vars

\* ------------------------------------------------ suggest_improvements

\* d.get(key, default)
Get(d, key, default) == IF key \in DOMAIN d THEN d[key] ELSE default

\* `chars in t': the characters stand somewhere in t.
In(chars, t) ==
    \E i \in 1..(Len(t) - Len(chars) + 1) :
        \A k \in 1..Len(chars) : t[i + k - 1] = chars[k]

\* s[:n]
First(s, n) == SubSeq(s, 1, Min(n, Len(s)))

\* set(t.split()): the runs of characters of t between white space.
Split(t) ==
    {SubSeq(t, i, j) : <<i, j>> \in
        {p \in (1..Len(t)) \X (1..Len(t)) :
            /\ p[1] <= p[2]
            /\ \A k \in p[1]..p[2] : t[k] \notin SpaceChars
            /\ p[1] = 1 \/ t[p[1] - 1] \in SpaceChars
            /\ p[2] = Len(t) \/ t[p[2] + 1] \in SpaceChars}}

Suggestion(type, priority, names) == [type |-> type, priority |-> priority, names |-> names]

\* MissingSkillSuggestions with a slip: the skill is searched as written.
RECURSIVE MissingSkillSuggestionsAsWritten(_, _)
MissingSkillSuggestionsAsWritten(skills, resume_content) ==
    IF skills = <<>> THEN <<>>
    ELSE (IF ~In(Spelling[Head(skills)], str_lower(resume_content))
          THEN <<Suggestion("missing_skill", "high", <<Head(skills)>>)>>
          ELSE <<>>)
         \o MissingSkillSuggestionsAsWritten(Tail(skills), resume_content)

\* for skill in ...: if skill.lower() not in resume_content.lower(): append
RECURSIVE MissingSkillSuggestions(_, _)
MissingSkillSuggestions(skills, resume_content) ==
    IF skills = <<>> THEN <<>>
    ELSE (IF ~In(str_lower(Spelling[Head(skills)]), str_lower(resume_content))
          THEN <<Suggestion("missing_skill", "high", <<Head(skills)>>)>>
          ELSE <<>>)
         \o MissingSkillSuggestions(Tail(skills), resume_content)

\* for word in ...: if word not in resume_content.lower(): append
RECURSIVE ActionWordSuggestions(_, _)
ActionWordSuggestions(words, resume_content) ==
    IF words = <<>> THEN <<>>
    ELSE (IF ~In(Spelling[Head(words)], str_lower(resume_content))
          THEN <<Suggestion("action_word", "medium", <<Head(words)>>)>>
          ELSE <<>>)
         \o ActionWordSuggestions(Tail(words), resume_content)

\* AchievementSuggestions with a slip: <= for <.
AchievementSuggestionsUpTo(match_score) ==
    IF match_score <= 7000 THEN <<Suggestion("achievement", "high", <<>>)>> ELSE <<>>

\* if match_score < 70: append; the score in hundredths.
AchievementSuggestions(match_score) ==
    IF match_score < 7000 THEN <<Suggestion("achievement", "high", <<>>)>> ELSE <<>>

\* The technical skills that are no token of the resume, as a list.
MissingKeywords(technical, resume_content) ==
    LET tokens == Split(str_lower(resume_content))
    IN  SelectSeq(Distinct(technical), LAMBDA skill : Spelling[skill] \notin tokens)

\* if match_score < 60: ... list(missing_keywords)[:5], for each order of
\* list(set).
KeywordSuggestions(technical, resume_content, match_score) ==
    LET missing_keywords == MissingKeywords(technical, resume_content)
    IN  IF match_score < 6000 /\ missing_keywords # <<>>
        THEN {<<Suggestion("keywords", "high", First(listing, 5))>> :
                  listing \in Orders(missing_keywords)}
        ELSE {<<>>}

\* suggest_improvements with a slip: the keywords are checked before the
\* achievements.
suggest_improvements_keywords_first(resume_content, job, match_score) ==
    {MissingSkillSuggestions(First(Get(job, "required_skills", <<>>), 5), resume_content)
         \o ActionWordSuggestions(First(Get(job, "action_words", <<>>), 5), resume_content)
         \o keywords
         \o AchievementSuggestions(match_score) :
     keywords \in KeywordSuggestions(Get(job, "technical_skills", <<>>),
                                     resume_content, match_score)}

\* suggest_improvements(resume_content, job_analysis, match_score): the
\* lists it can return.
suggest_improvements(resume_content, job, match_score) ==
    {MissingSkillSuggestions(First(Get(job, "required_skills", <<>>), 5), resume_content)
         \o ActionWordSuggestions(First(Get(job, "action_words", <<>>), 5), resume_content)
         \o AchievementSuggestions(match_score)
         \o keywords :
     keywords \in KeywordSuggestions(Get(job, "technical_skills", <<>>),
                                     resume_content, match_score)}

\* The job records hold the first entries, at most MaxEntries, of these lists.
MaxEntries == 6

RequiredEntries == <<"Python", "go", "sql", "aws", "git", "rust", "java">>

ActionEntries == <<"Led", "built", "created", "managed", "designed", "planned", "led">>

TechnicalEntries == <<"python", "Go", "sql", "aws", "git", "rust", "java">>

Prefixes(entries) == {First(entries, n) : n \in 0..MaxEntries}

\* "", "I Led a team, Built apis in PYTHON and go" and
\* "pythonic sql aws git"
ResumeTexts ==
    {<<>>,
     <<"I", " ", "L", "e", "d", " ", "a", " ", "t", "e", "a", "m", ",", " ",
       "B", "u", "i", "l", "t", " ", "a", "p", "i", "s", " ", "i", "n", " ",
       "P", "Y", "T", "H", "O", "N", " ", "a", "n", "d", " ", "g", "o">>,
     <<"p", "y", "t", "h", "o", "n", "i", "c", " ", "s", "q", "l", "\t", "a", "w", "s",
       "\n", "g", "i", "t">>}

\* Match scores in hundredths, on both sides of 60 and 70.
Scores == {0, 5500, 5999, 6000, 6999, 7000, 10000}

InitSuggest ==
    /\ text \in ResumeTexts
    /\ job_analysis \in
           [required_skills : Prefixes(RequiredEntries),
            action_words : Prefixes(ActionEntries),
            technical_skills : Prefixes(TechnicalEntries)]
           \cup [required_skills : Prefixes(RequiredEntries)]
    /\ match \in [raised : {FALSE}, score : Scores]
    /\ resume_analysis = [technical_skills |-> <<>>, soft_skills |-> <<>>,
                          action_words |-> <<>>]
    /\ arrangement = "none"
    /\ remaining = 1
    /\ NotCalled

\* optimizer.suggest_improvements(text, job_analysis, match.score)
SuggestImprovements ==
    /\ Called("suggest_improvements")
    /\ \E suggestions \in suggest_improvements(text, job_analysis, match.score) :
          out' = [suggestions |-> suggestions]
    /\ call' = "suggest_improvements"
    /\ UNCHANGED <<text, unscored, lexicon, raised, records, hashing, engine, automation>>

NextSuggest == SuggestImprovements

SpecSuggest == InitSuggest /\ [][NextSuggest]_vars

\* ------------------------------------ threads that share one analyzer

\* Number of threads that call the shared analyzer at the same time.
MaxThreads == 2

Threads == 1..MaxThreads

\* NLPAnalyzer(): the fields __init__ sets.
NLPAnalyzer ==
    [action_verbs |-> action_verbs,
     technical_skills |-> technical_skills,
     soft_skills |-> soft_skills]

\* The operations the threads call.
Methods ==
    {"analyze_job_description", "analyze_resume", "_extract_skills",
     "calculate_match_score", "suggest_improvements"}

\* The records the threads hand to calculate_match_score and to
\* suggest_improvements: every thread is handed the same two dictionaries.
SharedResume ==
    [technical_skills |-> <<"python", "go">>,
     soft_skills |-> <<>>,
     action_words |-> <<"led">>]

SharedJob ==
    [technical_skills |-> <<"python", "sql", "go">>,
     required_skills |-> <<"python", "aws">>,
     soft_skills |-> <<"leadership">>,
     action_words |-> <<"led", "built">>]

\* The skills of the named section of t that are in the list `skills':
\* _extract_required_skills and _extract_preferred_skills, the list being
\* self.technical_skills as it is when the statement runs.
SectionSkills(t, headings, terminators, skills) ==
    CHOOSE result \in
        {IF section # <<>> THEN _extract_skills(section, skills) ELSE <<>> :
             section \in {FirstSection(str_lower(t), headings, terminators)}} : TRUE

\* return round(total_score, 2), breakdown: the results for the scores
\* computed before and the records as they are now.
ScoreResults(scores, resume, job) ==
    IF \E k \in DOMAIN scores : Raised(scores[k])
    THEN {[raised |-> TRUE]}
    ELSE {[raised |-> FALSE,
           score |-> TotalScore(scores),
           breakdown |->
               [scores |-> scores,
                total_score |-> TotalScore(scores),
                missing_required_skills |-> mr,
                matching_skills |-> ms,
                missing_action_words |-> ma]] :
          mr \in SetListings(MissingRequired(Range(job.required_skills),
                                             Range(resume.technical_skills))),
          ms \in SetListings(Range(resume.technical_skills)
                                 \cap Range(job.technical_skills)),
          ma \in SetListings(Range(job.action_words) \ Range(resume.action_words))}

Goes(locals) == [locals |-> locals, result |-> <<>>]

Returns(result) == [locals |-> <<>>, result |-> <<result>>]

\* The next statement of a call of an NLPAnalyzer method that has computed
\* `locals': the locals after it, or the result it returns.  `self' is the
\* analyzer and `recs' are the handed text and records, both as they are
\* when the statement runs.
AnalyzerAdvance(method, locals, self, recs) ==
    LET n == Len(locals)
        lower == str_lower(recs.text)
    IN  CASE method = "analyze_resume" /\ n = 0 ->
                 {Goes(<<_extract_skills(lower, self.technical_skills)>>)}
          [] method = "analyze_resume" /\ n = 1 ->
                 {Goes(Append(locals, _extract_skills(lower, self.soft_skills)))}
          [] method = "analyze_resume" /\ n = 2 ->
                 {Goes(Append(locals, _extract_skills(lower, self.action_verbs)))}
          [] method = "analyze_resume" /\ n = 3 ->
                 {Returns(record) :
                      record \in ResumeRecords(locals[1], locals[2], locals[3],
                                               _extract_achievements(recs.text))}
          [] method = "analyze_job_description" /\ n = 0 ->
                 {Goes(<<SectionSkills(recs.text, required_headings,
                                       required_terminators, self.technical_skills)>>)}
          [] method = "analyze_job_description" /\ n = 1 ->
                 {Goes(Append(locals,
                              SectionSkills(recs.text, preferred_headings,
                                            preferred_terminators, self.technical_skills)))}
          [] method = "analyze_job_description" /\ n = 2 ->
                 {Goes(Append(locals, _extract_skills(lower, self.technical_skills)))}
          [] method = "analyze_job_description" /\ n = 3 ->
                 {Goes(Append(locals, _extract_skills(lower, self.soft_skills)))}
          [] method = "analyze_job_description" /\ n = 4 ->
                 {Goes(Append(locals, _extract_skills(lower, self.action_verbs)))}
          [] method = "analyze_job_description" /\ n = 5 ->
                 UNION {{Returns(record) :
                             record \in JobRecords(locals[1], locals[2], locals[3],
                                                   locals[4], locals[5],
                                                   _extract_experience_years(recs.text),
                                                   education,
                                                   _extract_key_phrases(recs.text))} :
                        education \in _extract_education(recs.text)}
          [] method = "_extract_skills" ->
                 {Returns([found |-> _extract_skills(recs.text, self.technical_skills)])}
          [] method = "calculate_match_score" /\ n = 0 ->
                 {Goes(<<MatchScores(recs.resume, recs.job)>>)}
          [] method = "calculate_match_score" /\ n = 1 ->
                 {Returns(result) :
                      result \in ScoreResults(locals[1], recs.resume, recs.job)}

\* The next statement of a call of suggest_improvements: the loop over the
\* required skills, the loop over the action words, then the two tests on
\* the score and the return.
OptimizerAdvance(locals, recs) ==
    CASE Len(locals) = 0 ->
             {Goes(<<MissingSkillSuggestions(
                         First(Get(recs.job, "required_skills", <<>>), 5), recs.text)>>)}
      [] Len(locals) = 1 ->
             {Goes(Append(locals,
                          ActionWordSuggestions(
                              First(Get(recs.job, "action_words", <<>>), 5), recs.text)))}
      [] Len(locals) = 2 ->
             {Returns([suggestions |->
                           locals[1] \o locals[2] \o AchievementSuggestions(recs.score)
                               \o keywords]) :
                  keywords \in KeywordSuggestions(Get(recs.job, "technical_skills", <<>>),
                                                  recs.text, recs.score)}

Advance(method, locals, self, recs) ==
    IF method = "suggest_improvements"
    THEN OptimizerAdvance(locals, recs)
    ELSE AnalyzerAdvance(method, locals, self, recs)

\* Statement with a slip: analyze_resume keeps what it found in the field
\* of the same name (self.technical_skills = self._extract_skills(...)).
StatementKeepingFound(method, locals, self, recs) ==
    {[after |-> after,
      self |-> IF method = "analyze_resume" /\ Len(locals) = 0
               THEN [self EXCEPT !.technical_skills = after.locals[1]]
               ELSE self,
      recs |-> recs] : after \in Advance(method, locals, self, recs)}

\* Statement with a slip: suggest_improvements cuts the handed list itself
\* to five entries (del required[5:]) where the code slices a copy.
StatementCuttingHanded(method, locals, self, recs) ==
    {[after |-> after,
      self |-> self,
      recs |-> IF method = "suggest_improvements" /\ Len(locals) = 0
               THEN [recs EXCEPT !.job.required_skills = First(@, 1)]
               ELSE recs] : after \in Advance(method, locals, self, recs)}

\* What one statement leaves behind: the call's locals or result, the
\* analyzer's fields and the handed records.  No statement of the engine
\* assigns to a field of self, and none changes a handed list or dictionary:
\* the lists found are new lists, the scores and the breakdown new
\* dictionaries.
Statement(method, locals, self, recs) ==
    {[after |-> after, self |-> self, recs |-> recs] :
         after \in Advance(method, locals, self, recs)}

\* The texts handed to the threads' calls.
SharedTexts == CallTexts

\* Each thread is about to call one operation of the one analyzer, on the
\* same text and records.
InitShared ==
    /\ analyzer = NLPAnalyzer
    /\ passed \in [text : SharedTexts, resume : {SharedResume}, job : {SharedJob},
                   score : {5500}]
    /\ threads \in [Threads -> [method : Methods, locals : {<<>>}]]
    /\ returned = [t \in Threads |-> <<>>]
    /\ resume_analysis = <<>>
    /\ job_analysis = <<>>
    /\ arrangement = "none"
    /\ match = <<>>
    /\ text = NoText
    /\ remaining = 0
    /\ call = "none"
    /\ lexicon = "none"
    /\ out = <<>>
    /\ raised = <<"none", "none">>
    /\ since = 0
    /\ records = <<>>
    /\ hashing = {}
    /\ NoAutomation

\* Thread t runs the next statement of its call.
Step(t) ==
    /\ returned[t] = <<>>
    /\ \E next \in Statement(threads[t].method, threads[t].locals, analyzer, passed) :
          /\ threads' = [threads EXCEPT ![t].locals = next.after.locals]
          /\ returned' = [returned EXCEPT ![t] = next.after.result]
          /\ analyzer' = next.self
          /\ passed' = next.recs
    /\ UNCHANGED <<analysis, automation>>

NextShared == \E t \in Threads : Step(t)

SpecShared == InitShared /\ [][NextShared]_vars

\* ------------------------------------ the auto-apply queue and its limiter

\* Number of calendar days the clock passes through.
MaxDays == 2

\* Number of requests made to the auto-apply route.
MaxRequests == 2

\* Number of invocations of process_queue that can be pending or running at
\* the same time.
MaxInvocations == 2

\* rate_limiter = RateLimiter(daily_limit=50)
daily_limit == 50

Days == 1..MaxDays

Requests == 1..MaxRequests

Invocations == 1..MaxInvocations

\* json.dump({'date': ..., 'count': self.applications_today}, f)
_save_count(limiter, day) == <<[date |-> day, count |-> limiter.applications_today]>>

\* _load_count(): the stored count if the file exists and holds today's
\* date, 0 otherwise.
_load_count(stored, day) ==
    IF stored # <<>> /\ stored[1].date = day THEN stored[1].count ELSE 0

\* RateLimiter(daily_limit), created with the file `stored': _load_count()
\* reads the clock on `day' (line 216), and after it has returned the
\* constructor reads the clock again for last_reset (line 185), on `later'.
RateLimiter(limit, stored, day, later) ==
    [daily_limit |-> limit,
     applications_today |-> _load_count(stored, day),
     last_reset |-> later]

\* _check_reset(): on a later day than last_reset the count goes to 0,
\* last_reset to today, and the file is written.
_check_reset(limiter, stored, day) ==
    IF day > limiter.last_reset
    THEN [limiter |-> [limiter EXCEPT !.applications_today = 0, !.last_reset = day],
          storage |-> _save_count([limiter EXCEPT !.applications_today = 0], day)]
    ELSE [limiter |-> limiter, storage |-> stored]

\* can_apply(): the limiter and the file after the call, and its result.
can_apply(limiter, stored, day) ==
    LET now == _check_reset(limiter, stored, day)
    IN  [limiter |-> now.limiter, storage |-> now.storage,
         result |-> now.limiter.applications_today < now.limiter.daily_limit]

\* record_application()
record_application(limiter, stored, day) ==
    LET now == _check_reset(limiter, stored, day)
        counted == [now.limiter EXCEPT !.applications_today = @ + 1]
    IN  [limiter |-> counted, storage |-> _save_count(counted, day),
         result |-> counted.applications_today]

Max(a, b) == IF a > b THEN a ELSE b

\* get_remaining()
get_remaining(limiter, stored, day) ==
    LET now == _check_reset(limiter, stored, day)
    IN  [limiter |-> now.limiter, storage |-> now.storage,
         result |-> Max(0, now.limiter.daily_limit - now.limiter.applications_today)]

\* ApplicationQueue()
ApplicationQueue == [queue |-> <<>>, processing |-> FALSE]

\* The counts the file can hold when the program starts.
StoredCounts == {0, daily_limit - 1, daily_limit}

\* The file when the program starts: absent, or written on the day before
\* or earlier on the same day.
Stored ==
    {<<>>} \cup {<<[date |-> day, count |-> count]>> : day \in {0, 1}, count \in StoredCounts}

\* What has been done so far: the requests the route answered 'queued', the
\* applications an attempt was started for, the applications recorded on
\* each day (those the file holds for its date included), the file and the
\* count the limiter was created with, and the latest operation of the rate
\* limiter with its day and result.
NothingDone(stored, day, later) ==
    [accepted |-> {},
     attempted |-> {},
     recorded |-> [d \in 0..(MaxDays + 1) |->
                      IF stored # <<>> /\ stored[1].date = d THEN stored[1].count ELSE 0],
     created |-> [stored |-> stored, on |-> day,
                  count |-> RateLimiter(daily_limit, stored, day, later).applications_today],
     operation |-> "none",
     on |-> 0,
     result |-> 0,
     allowed |-> FALSE]

\* The program has been started on day 1: importing auto_apply_service has
\* created rate_limiter from the file, the clock being at day 1 when the
\* file was read and at day 1 or, midnight having passed in between, at
\* day 2 when last_reset was set; importing scheduler_service has created
\* application_queue.  scheduler_service itself does not import the name
\* AutoApplyService (lines 1-13); the name is in its namespace only if
\* another module has put it there.
InitQueue ==
    /\ settings \in [AUTO_APPLY_ENABLED : BOOLEAN]
    /\ namespace \in {{}, {"AutoApplyService"}}
    /\ today \in {1, 2}
    /\ storage \in Stored
    /\ rate_limiter = RateLimiter(daily_limit, storage, 1, today)
    /\ application_queue = ApplicationQueue
    /\ tasks = [i \in Invocations |-> [pc |-> "none", application |-> 0]]
    /\ log = NothingDone(storage, 1, today)
    /\ NoThreads
    /\ resume_analysis = <<>>
    /\ job_analysis = <<>>
    /\ arrangement = "none"
    /\ match = <<>>
    /\ text = NoText
    /\ remaining = 0
    /\ call = "none"
    /\ lexicon = "none"
    /\ out = <<>>
    /\ raised = <<"none", "none">>
    /\ since = 0
    /\ records = <<>>
    /\ hashing = {}

\* The log after an operation of the rate limiter.
Operated(entries, operation, day, done) ==
    [entries EXCEPT !.operation = operation, !.on = day,
                    !.result = IF operation = "can_apply" THEN 0 ELSE done.result,
                    !.allowed = IF operation = "can_apply" THEN done.result ELSE FALSE]

\* The clock passes midnight.
Midnight ==
    /\ today < MaxDays
    /\ today' = today + 1
    /\ UNCHANGED <<settings, namespace, storage, rate_limiter, application_queue, tasks, log>>
    /\ UNCHANGED <<analysis, engine>>

\* POST /applications/{application_id}/auto-apply, request number `request'.
AutoApplyToJob(request) ==
    /\ request \notin log.accepted
    /\ \A earlier \in Requests : earlier < request => earlier \in log.accepted
    /\ \/ /\ ~settings.AUTO_APPLY_ENABLED
          /\ UNCHANGED <<storage, rate_limiter, application_queue, log>>
       \/ /\ settings.AUTO_APPLY_ENABLED
          /\ LET asked == can_apply(rate_limiter, storage, today)
             IN  IF ~asked.result
                 THEN \* 429, the detail holds get_remaining()
                      LET left == get_remaining(asked.limiter, asked.storage, today)
                      IN  /\ rate_limiter' = left.limiter
                          /\ storage' = left.storage
                          /\ log' = Operated(log, "get_remaining", today, left)
                          /\ UNCHANGED application_queue
                 ELSE \/ \* 404: the application, its job or its resume is not found
                         /\ rate_limiter' = asked.limiter
                         /\ storage' = asked.storage
                         /\ log' = Operated(log, "can_apply", today, asked)
                         /\ UNCHANGED application_queue
                      \/ \* 'queued'
                         LET left == get_remaining(asked.limiter, asked.storage, today)
                         IN  /\ application_queue' =
                                    [application_queue EXCEPT !.queue = Append(@, request)]
                             /\ rate_limiter' = left.limiter
                             /\ storage' = left.storage
                             /\ log' = [Operated(log, "get_remaining", today, left)
                                            EXCEPT !.accepted = @ \cup {request}]
    /\ UNCHANGED <<settings, namespace, today, tasks>>
    /\ UNCHANGED <<analysis, engine>>

\* GET /jobs/rate-limit/status: get_remaining(), then can_apply().
RateLimitStatus ==
    /\ LET left == get_remaining(rate_limiter, storage, today)
           asked == can_apply(left.limiter, left.storage, today)
       IN  /\ rate_limiter' = asked.limiter
           /\ storage' = asked.storage
           /\ log' = Operated(log, "can_apply", today, asked)
    /\ UNCHANGED <<settings, namespace, today, application_queue, tasks>>
    /\ UNCHANGED <<analysis, engine>>

\* GET /applications/queue/status: get_remaining().
QueueStatus ==
    /\ LET left == get_remaining(rate_limiter, storage, today)
       IN  /\ rate_limiter' = left.limiter
           /\ storage' = left.storage
           /\ log' = Operated(log, "get_remaining", today, left)
    /\ UNCHANGED <<settings, namespace, today, application_queue, tasks>>
    /\ UNCHANGED <<analysis, engine>>

\* Loop with a slip: the limiter is not asked before an application is
\* taken from the queue.
LoopUnlimited(queue, limiter, stored, day) ==
    IF queue = <<>>
    THEN [pc |-> "returned", application |-> 0, queue |-> queue,
          limiter |-> limiter, storage |-> stored, operation |-> "none", result |-> 0]
    ELSE [pc |-> "applying", application |-> Head(queue), queue |-> Tail(queue),
          limiter |-> limiter, storage |-> stored, operation |-> "none", result |-> 0]

\* process_queue from the test of its while loop (line 199) to its next
\* await, or to its end: where the invocation is then, the application it
\* holds, and the queue, the limiter and the file it leaves.
Loop(queue, limiter, stored, day) ==
    IF queue = <<>>
    THEN [pc |-> "returned", application |-> 0, queue |-> queue,
          limiter |-> limiter, storage |-> stored, operation |-> "none", result |-> 0]
    ELSE LET asked == can_apply(limiter, stored, day)
             left == get_remaining(asked.limiter, asked.storage, day)
         IN  IF ~asked.result
             THEN [pc |-> "returned", application |-> 0, queue |-> queue,
                   limiter |-> asked.limiter, storage |-> asked.storage,
                   operation |-> "can_apply", result |-> 0]
             ELSE IF left.result <= 0
             THEN [pc |-> "returned", application |-> 0, queue |-> Tail(queue),
                   limiter |-> left.limiter, storage |-> left.storage,
                   operation |-> "get_remaining", result |-> left.result]
             ELSE [pc |-> "applying", application |-> Head(queue), queue |-> Tail(queue),
                   limiter |-> left.limiter, storage |-> left.storage,
                   operation |-> "get_remaining", result |-> left.result]

\* The state after the loop has run from its test to `next': an invocation
\* that has left the loop has passed `finally' and cleared the flag.
Looped(i, next) ==
    /\ tasks' = [tasks EXCEPT ![i] = [pc |-> next.pc, application |-> next.application]]
    /\ application_queue' =
           [queue |-> next.queue, processing |-> next.pc = "applying"]
    /\ rate_limiter' = next.limiter
    /\ storage' = next.storage
    /\ log' = [log EXCEPT
                  !.attempted = IF next.pc = "applying" THEN @ \cup {next.application} ELSE @,
                  !.operation = IF next.operation = "none" THEN @ ELSE next.operation,
                  !.on = IF next.operation = "none" THEN @ ELSE today,
                  !.result = IF next.operation = "none" THEN @ ELSE next.result,
                  !.allowed = IF next.operation = "none" THEN @ ELSE FALSE]

\* The pcs of an invocation that is suspended in one of its awaits.
Suspended == {"applying", "sleeping"}

\* ProcessQueue with a slip: the flag is not looked at.
ProcessQueueUnguarded(i) ==
    /\ tasks[i].pc \notin Suspended
    /\ "AutoApplyService" \in namespace
    /\ Looped(i, Loop(application_queue.queue, rate_limiter, storage, today))
    /\ UNCHANGED <<settings, namespace, today>>
    /\ UNCHANGED <<analysis, engine>>

\* await application_queue.process_queue(), invocation i, up to its first
\* await or to its end.
ProcessQueue(i) ==
    /\ tasks[i].pc \notin Suspended
    /\ IF application_queue.processing
       THEN \* "Queue is already being processed"
            /\ tasks' = [tasks EXCEPT ![i] = [pc |-> "turned away", application |-> 0]]
            /\ UNCHANGED <<storage, rate_limiter, application_queue, log>>
       ELSE IF "AutoApplyService" \notin namespace
       THEN \* line 194 raises NameError, after the flag is set and before try
            /\ tasks' = [tasks EXCEPT ![i] = [pc |-> "raised", application |-> 0]]
            /\ application_queue' = [application_queue EXCEPT !.processing = TRUE]
            /\ UNCHANGED <<storage, rate_limiter, log>>
       ELSE Looped(i, Loop(application_queue.queue, rate_limiter, storage, today))
    /\ UNCHANGED <<settings, namespace, today>>
    /\ UNCHANGED <<analysis, engine>>

\* await auto_apply.apply_to_linkedin_job(...) ends: it raises, or returns a
\* result with or without success; process_queue runs on to its next await
\* (the sleep) or, through except and finally, to its end.
Applied(i) ==
    /\ tasks[i].pc = "applying"
    /\ \/ \* raised: except Exception, finally
          /\ tasks' = [tasks EXCEPT ![i] = [pc |-> "returned", application |-> 0]]
          /\ application_queue' = [application_queue EXCEPT !.processing = FALSE]
          /\ UNCHANGED <<storage, rate_limiter, log>>
       \/ \* result['success']
          LET counted == record_application(rate_limiter, storage, today)
          IN  /\ tasks' = [tasks EXCEPT ![i].pc = "sleeping"]
              /\ rate_limiter' = counted.limiter
              /\ storage' = counted.storage
              /\ log' = [Operated(log, "record_application", today, counted)
                             EXCEPT !.recorded[today] = @ + 1]
              /\ UNCHANGED application_queue
       \/ \* not result['success']
          /\ tasks' = [tasks EXCEPT ![i].pc = "sleeping"]
          /\ UNCHANGED <<storage, rate_limiter, application_queue, log>>
    /\ UNCHANGED <<settings, namespace, today>>
    /\ UNCHANGED <<analysis, engine>>

\* await asyncio.sleep(delay) ends: the loop is tested again.
Slept(i) ==
    /\ tasks[i].pc = "sleeping"
    /\ Looped(i, Loop(application_queue.queue, rate_limiter, storage, today))
    /\ UNCHANGED <<settings, namespace, today>>
    /\ UNCHANGED <<analysis, engine>>

NextQueue ==
    \/ Midnight
    \/ \E request \in Requests : AutoApplyToJob(request)
    \/ RateLimitStatus
    \/ QueueStatus
    \/ \E i \in Invocations : ProcessQueue(i)
    \/ \E i \in Invocations : Applied(i)
    \/ \E i \in Invocations : Slept(i)

SpecQueue == InitQueue /\ [][NextQueue]_vars

\* The event loop runs every coroutine that can run: an invocation of
\* process_queue goes on when its await ends.  Nothing in the program calls
\* process_queue (main.py starts only the job scheduler, and only when
\* ENABLE_JOB_SCHEDULER is set); LiveQueue assumes the most a caller can do,
\* that process_queue is invoked again and again.
LiveQueue ==
    /\ SpecQueue
    /\ \A i \in Invocations :
           WF_vars(ProcessQueue(i)) /\ WF_vars(Applied(i)) /\ WF_vars(Slept(i))

\* ---------------------------------- create_application: score and advice

\* The skills the job descriptions require.
ApplyNames == <<"java", "go", "python">>

\* The descriptions "required: <names>".
ApplyDescriptions ==
    {Spelling["required:"] \o <<" ">> \o CommaJoined(names) : names \in Listed(ApplyNames)}

\* The pieces of the resumes: "javascript ", "go ", "good " and "Python ".
ApplyTokens ==
    <<Spelling["javascript"] \o <<" ">>,
      Spelling["go"] \o <<" ">>,
      <<"g", "o", "o", "d", " ">>,
      <<"P">> \o Tail(Spelling["python"]) \o <<" ">>>>

\* Every resume of at most MaxTokens of these pieces.
ApplyResumes ==
    UNION {{Flatten(ts) : ts \in [1..n -> Range(ApplyTokens)]} : n \in 0..MaxTokens}

\* A job with a description and a resume with a content are at hand.
InitApply ==
    /\ passed \in [description : ApplyDescriptions]
    /\ text \in ApplyResumes
    /\ NotScored
    /\ call = "none"
    /\ lexicon = "none"
    /\ out = <<>>
    /\ raised = <<"none", "none">>
    /\ remaining = 1
    /\ since = 0
    /\ records = <<>>
    /\ hashing = {}
    /\ analyzer = <<>>
    /\ threads = <<>>
    /\ returned = <<>>
    /\ NoAutomation

\* create_application, lines 55 to 63: the job description and the resume
\* are analyzed, the match is scored, the suggestions are made from the
\* resume content, the job record and the score.
CreateApplication ==
    /\ Called("create_application")
    /\ \E job \in analyze_job_description(passed.description),
          resume \in analyze_resume(text) :
          /\ job_analysis' = job
          /\ resume_analysis' = resume
          /\ \E scored \in calculate_match_score(resume, job) :
                /\ match' = scored
                /\ \E suggestions \in suggest_improvements(text, job, scored.score) :
                      out' = [suggestions |-> suggestions]
    /\ call' = "create_application"
    /\ UNCHANGED <<text, arrangement, lexicon, raised, records, hashing, engine, automation>>

NextApply == CreateApplication

SpecApply == InitApply /\ [][NextApply]_vars

\* ===================================================== claims: the Scorer

Scored == arrangement # "none"

\* The records as calculate_match_score received them.
GivenResume == Arrange(resume_analysis, arrangement)

GivenJob == Arrange(job_analysis, arrangement)

ResumeTech == Range(resume_analysis.technical_skills)

ResumeSoft == Range(resume_analysis.soft_skills)

ResumeActions == Range(resume_analysis.action_words)

JobTech == Range(job_analysis.technical_skills)

JobRequired == Range(job_analysis.required_skills)

JobSoft == Range(job_analysis.soft_skills)

JobActions == Range(job_analysis.action_words)

\* C1: calculate_match_score returns, for every pair of records, a score
\* between 0.0 and 100.0 (0 and 10000 hundredths), and the total_score of the
\* breakdown is the returned score.
C1_ScoreBounded ==
    Scored =>
        /\ ~match.raised
        /\ 0 <= match.score /\ match.score <= 10000
        /\ match.breakdown.total_score = match.score

\* Both ends of the range are reached, with overlapping non-empty sets.
C1_Witness ==
    /\ Scored
    /\ ~match.raised
    /\ match.score = 10000
    /\ Cardinality(ResumeTech) > Cardinality(JobTech)

\* Size of a job-side set as a denominator: 1 for an empty set, whose
\* category contributes nothing.
Denominator(S) == IF S = {} THEN 1 ELSE Cardinality(S)

\* The exact sum of the four weighted ratios, times den.
ExactTimes(den) ==
      40 * Cardinality(ResumeTech \cap JobTech) * (den \div Denominator(JobTech))
    + 30 * Cardinality(ResumeTech \cap JobRequired) * (den \div Denominator(JobRequired))
    + 15 * Cardinality(ResumeSoft \cap JobSoft) * (den \div Denominator(JobSoft))
    + 15 * Cardinality(ResumeActions \cap JobActions) * (den \div Denominator(JobActions))

CommonDenominator ==
    Denominator(JobTech) * Denominator(JobRequired)
        * Denominator(JobSoft) * Denominator(JobActions)

Abs(x) == IF x < 0 THEN -x ELSE x

SpecExample ==
    /\ JobTech = {"python", "react", "docker"}
    /\ ResumeTech = {"python", "docker"}
    /\ JobRequired = {"python"}
    /\ JobSoft = {} /\ JobActions = {}

\* C2: the score is the hundredth nearest to 40*|rt & jt|/|jt| +
\* 30*|rt & jr|/|jr| + 15*|rs & js|/|js| + 15*|ra & ja|/|ja| (a category
\* with an empty job-side set counting 0), and the example of the
\* specification scores 56.67.
C2_WeightedSum ==
    Scored =>
        /\ ~match.raised
        /\ 2 * Abs(match.score * CommonDenominator - 100 * ExactTimes(CommonDenominator))
               <= CommonDenominator
        /\ SpecExample => match.score = 5667

C2_Witness == Scored /\ SpecExample /\ ~match.raised /\ match.score = 5667

\* C3: a category whose job-side set is empty has sub-score 0 and raises no
\* division error, whatever the resume; with all four job-side sets empty the
\* score is 0.0.
C3_EmptyJobSide ==
    Scored =>
        /\ ~match.raised
        /\ JobTech = {} => match.breakdown.scores.technical_skills = <<0, 1>>
        /\ JobRequired = {} => match.breakdown.scores.required_skills = <<0, 1>>
        /\ JobSoft = {} => match.breakdown.scores.soft_skills = <<0, 1>>
        /\ JobActions = {} => match.breakdown.scores.action_words = <<0, 1>>
        /\ (JobTech = {} /\ JobRequired = {} /\ JobSoft = {} /\ JobActions = {})
               => match.score = 0

C3_Witness ==
    /\ Scored
    /\ JobTech = {} /\ JobRequired = {} /\ JobSoft = {} /\ JobActions = {}
    /\ ResumeTech # {} /\ ResumeSoft # {} /\ ResumeActions # {}
    /\ ~match.raised
    /\ match.score = 0

\* The resume record with skill s appended to technical_skills.
WithTechnicalSkill(resume, s) ==
    [resume EXCEPT !.technical_skills = Append(@, s)]

\* C4: adding a skill of job.required_skills to the resume's
\* technical_skills, all else equal, never lowers the score.
C4_Monotone ==
    Scored =>
        \A s \in JobRequired :
            LET scores == MatchScores(WithTechnicalSkill(GivenResume, s), GivenJob)
            IN  /\ ~match.raised
                /\ \A k \in DOMAIN scores : ~Raised(scores[k])
                /\ TotalScore(scores) >= match.score

\* A required skill the resume lacks, which the job does not list as
\* technical, raises the score when added.
C4_Witness ==
    /\ Scored
    /\ ~match.raised
    /\ \E s \in JobRequired \ (ResumeTech \cup JobTech) :
           /\ ResumeTech \cap JobTech # {}
           /\ TotalScore(MatchScores(WithTechnicalSkill(GivenResume, s), GivenJob))
                  > match.score

\* C5: as sets, missing_required_skills = job.required_skills minus
\* resume.technical_skills, matching_skills = resume.technical_skills
\* intersect job.technical_skills, missing_action_words = job.action_words
\* minus resume.action_words; and the score, the sub-scores and these sets
\* are those obtained from the same lists in their original order.
C5_BreakdownSets ==
    Scored =>
        /\ ~match.raised
        /\ Range(match.breakdown.missing_required_skills) = JobRequired \ ResumeTech
        /\ Range(match.breakdown.matching_skills) = ResumeTech \cap JobTech
        /\ Range(match.breakdown.missing_action_words) = JobActions \ ResumeActions
        /\ \A m \in calculate_match_score(resume_analysis, job_analysis) :
               /\ ~m.raised
               /\ m.score = match.score
               /\ m.breakdown.scores = match.breakdown.scores
               /\ Range(m.breakdown.missing_required_skills)
                      = Range(match.breakdown.missing_required_skills)
               /\ Range(m.breakdown.matching_skills)
                      = Range(match.breakdown.matching_skills)
               /\ Range(m.breakdown.missing_action_words)
                      = Range(match.breakdown.missing_action_words)

C5_Witness ==
    /\ Scored
    /\ arrangement = "rearranged"
    /\ ~match.raised
    /\ Len(match.breakdown.missing_required_skills) = 2
    /\ Len(match.breakdown.matching_skills) = 1
    /\ Len(match.breakdown.missing_action_words) = 1
    /\ ResumeActions # {}

\* ================================================== claims: the Extractor

Analyzed == call \in {"analyze_job_description", "analyze_resume"}

\* C6: in every record of analyze_job_description and analyze_resume,
\* all_keywords holds exactly the elements of technical_skills, soft_skills
\* and action_words of that record, each once.
C6_AllKeywords ==
    Analyzed =>
        /\ Range(out.all_keywords)
               = Range(out.technical_skills) \cup Range(out.soft_skills)
                     \cup Range(out.action_words)
        /\ Len(out.all_keywords) = Cardinality(Range(out.all_keywords))

C6_Witness ==
    /\ call = "analyze_job_description"
    /\ out.technical_skills # <<>>
    /\ out.action_words # <<>>
    /\ Len(out.all_keywords) = 2
    /\ out.all_keywords[1] \in Range(out.action_words)

\* A letter or digit, for the claim's notion of a delimiter.
LetterOrDigit(c) == c \in WordChars \ {"_"}

Delimited(t, j) == j < 1 \/ j > Len(t) \/ ~LetterOrDigit(t[j])

\* A case-insensitive occurrence of the phrase in t with no letter or digit
\* next to it on either side.
WholeWordOccurrence(t, phrase) ==
    \E i \in 1..Len(t) :
        /\ LiteralAt(t, i, Spelling[phrase])
        /\ Delimited(t, i - 1)
        /\ Delimited(t, i + Len(Spelling[phrase]))

\* C7: _extract_skills(T, L) contains a phrase of L if and only if T holds
\* a case-insensitive occurrence of it delimited on both sides by the start
\* or end of the text, white space or punctuation.
C7_WholeWordIff ==
    call = "_extract_skills" =>
        \A phrase \in Range(SkillLists[lexicon]) :
            (phrase \in Range(out.found)) <=> WholeWordOccurrence(text, phrase)

\* The position of a phrase in a skill list.
IndexIn(skill_list, phrase) == CHOOSE i \in DOMAIN skill_list : skill_list[i] = phrase

\* C8: _extract_skills(T, L) holds only phrases of L, each at most once, in
\* the order in which they stand in L.
C8_LexiconOrder ==
    call = "_extract_skills" =>
        /\ Range(out.found) \subseteq Range(SkillLists[lexicon])
        /\ \A i, j \in DOMAIN out.found :
               i < j => IndexIn(SkillLists[lexicon], out.found[i])
                            < IndexIn(SkillLists[lexicon], out.found[j])

\* "GIT go": git stands before go in the text and after it in the list.
C8_Witness ==
    /\ call = "_extract_skills"
    /\ text = <<"G", "I", "T", " ", "g", "o">>
    /\ out.found = <<"go", "git">>

UpperExtracted == call = "_extract_skills(upper)"

\* C9 as stated: _extract_skills(T.upper(), L) = _extract_skills(T, L) for
\* every text T.
C9_UpperSame == UpperExtracted => out.found_upper = out.found

\* Whether every character of the text is an ASCII character.
IsAscii(t) == \A i \in DOMAIN t : t[i] # LigatureST

\* C9, amended: _extract_skills(T.upper(), L) = _extract_skills(T, L) for
\* every text T of ASCII characters.
C9_UpperSameAscii == (UpperExtracted /\ IsAscii(text)) => out.found_upper = out.found

C9_Witness ==
    /\ UpperExtracted
    /\ IsAscii(text)
    /\ str_upper(text) # text
    /\ out.found # <<>>
    /\ out.found_upper = out.found

\* A case-insensitive occurrence of a literal somewhere in t.
Occurs(t, literal) == \E i \in 1..Len(t) : LiteralAt(t, i, Spelling[literal])

\* No heading of _extract_preferred_skills occurs in the text.
NoPreferredHeading ==
    ~Occurs(text, "preferred:") /\ ~Occurs(text, "nice to have:") /\ ~Occurs(text, "bonus:")

\* C10 as stated: without an occurrence of "requirements:", "required:" or
\* "must have:" _extract_required_skills returns the empty list, and without
\* one of "preferred:", "nice to have:" or "bonus:" _extract_preferred_skills
\* does.
C10_HeadingAbsent ==
    /\ (/\ call = "_extract_required_skills"
        /\ ~Occurs(text, "requirements:")
        /\ ~Occurs(text, "required:")
        /\ ~Occurs(text, "must have:")) => out.skills = <<>>
    /\ (call = "_extract_preferred_skills" /\ NoPreferredHeading) => out.skills = <<>>

\* C10, amended: the headings of _extract_required_skills are
\* "requirement:", "requirements:", "required:" and "must have:".
C10_HeadingAbsentAmended ==
    /\ (/\ call = "_extract_required_skills"
        /\ ~Occurs(text, "requirement:")
        /\ ~Occurs(text, "requirements:")
        /\ ~Occurs(text, "required:")
        /\ ~Occurs(text, "must have:")) => out.skills = <<>>
    /\ (call = "_extract_preferred_skills" /\ NoPreferredHeading) => out.skills = <<>>

\* A text that names a skill under a heading of the other extractor only.
C10_Witness ==
    /\ call = "_extract_required_skills"
    /\ Occurs(text, "preferred:")
    /\ ~Occurs(text, "requirement:") /\ ~Occurs(text, "requirements:")
    /\ ~Occurs(text, "required:") /\ ~Occurs(text, "must have:")
    /\ _extract_skills(text, technical_skills) # <<>>
    /\ out.skills = <<>>

\* The position after the heading matched by the first pattern of `headings'
\* that matches somewhere in t, 0 when none does.
RECURSIVE MatchedHeadingEnd(_, _)
MatchedHeadingEnd(t, headings) ==
    IF headings = <<>> THEN 0
    ELSE LET starts == {i \in 1..Len(t) : HeadingEnd(t, i, Head(headings)) # 0}
         IN  IF starts = {} THEN MatchedHeadingEnd(t, Tail(headings))
             ELSE HeadingEnd(t, CHOOSE i \in starts : \A other \in starts : i <= other,
                             Head(headings))

\* The next occurrence of a terminator at or after position `from' of t, or
\* the position after the end of t.
NextTerminator(t, from, terminators) ==
    CHOOSE j \in from..(Len(t) + 1) :
        /\ j = Len(t) + 1
           \/ \E x \in DOMAIN terminators : LiteralAt(t, j, Spelling[terminators[x]])
        /\ \A k \in from..(j - 1) :
               \A x \in DOMAIN terminators : ~LiteralAt(t, k, Spelling[terminators[x]])

\* Every skill returned occurs somewhere before the terminator that follows
\* the matched heading.
BeforeTerminator(skills, t, headings, terminators) ==
    MatchedHeadingEnd(t, headings) # 0 =>
        \A x \in DOMAIN skills :
            \E i \in 1..(NextTerminator(t, MatchedHeadingEnd(t, headings), terminators) - 1) :
                LiteralAt(t, i, Spelling[skills[x]])

\* C11: a skill that occurs only at or after the terminator that follows the
\* matched heading is never returned by _extract_required_skills, nor by
\* _extract_preferred_skills with its own terminators, also when the
\* terminator follows the heading directly.
C11_StopsAtTerminator ==
    /\ call = "_extract_required_skills" =>
           BeforeTerminator(out.skills, text, required_headings, required_terminators)
    /\ call = "_extract_preferred_skills" =>
           BeforeTerminator(out.skills, text, preferred_headings, preferred_terminators)

\* The technical skills among `names', in the order of the lexicon.
InLexiconOrder(names) == SelectSeq(technical_skills, LAMBDA skill : skill \in Range(names))

\* C12: for "Requirements: <A>. Preferred: <B>." _extract_required_skills
\* returns the lexicon skills of A in lexicon order and
\* _extract_preferred_skills those of B; for "Requirements: python, aws.
\* Preferred: docker." these are ["python", "aws"] and ["docker"].
C12_SectionsSeparated ==
    /\ \A a \in Listed(RequiredNames), b \in Listed(PreferredNames) :
           text = JobDescription(a, b) =>
               /\ call = "_extract_required_skills" => out.skills = InLexiconOrder(a)
               /\ call = "_extract_preferred_skills" => out.skills = InLexiconOrder(b)
    /\ text = JobDescription(<<"python", "aws">>, <<"docker">>) =>
           /\ call = "_extract_required_skills" => out.skills = <<"python", "aws">>
           /\ call = "_extract_preferred_skills" => out.skills = <<"docker">>

\* The starts of the matches of achievement pattern n that re.findall
\* reports: those that do not lie inside a match that starts further left.
MatchStarts(t, n) ==
    {i \in 1..Len(t) :
        /\ AchievementEnd(t, i, n) # 0
        /\ \A j \in 1..(i - 1) : AchievementEnd(t, j, n) <= i}

\* The matches of the four patterns, pattern by pattern and within a pattern
\* from left to right, each as it stands in the text.
MatchesInOrder(t) ==
    LET pairs == {p \in (1..4) \X (1..Len(t)) : p[2] \in MatchStarts(t, p[1])}
        Before(p, q) == p[1] < q[1] \/ (p[1] = q[1] /\ p[2] < q[2])
    IN  [k \in 1..Cardinality(pairs) |->
            LET p == CHOOSE p \in pairs : Cardinality({q \in pairs : Before(q, p)}) = k - 1
            IN  SubSeq(t, p[2], AchievementEnd(t, p[2], p[1]) - 1)]

\* "Increased sales by 30%", as it stands in SalesResume.
SalesAchievement == SubSeq(SalesResume, 1, 22)

\* C13 as stated: _extract_achievements returns every match of the four
\* patterns in pattern-then-occurrence order, duplicates kept, and for
\* "Increased sales by 30%. Managed a team of 5." it returns
\* ["increased sales by 30%"].
C13_AllMatches ==
    call = "_extract_achievements" =>
        /\ out.achievements = MatchesInOrder(text)
        /\ text = SalesResume => out.achievements = <<str_lower(SalesAchievement)>>

\* C13, amended: the matches are returned in the letter case of the text;
\* for "Increased sales by 30%. Managed a team of 5." the result is
\* ["Increased sales by 30%"].
C13_AllMatchesAsWritten ==
    call = "_extract_achievements" =>
        /\ out.achievements = MatchesInOrder(text)
        /\ text = SalesResume =>
               /\ out.achievements = <<SalesAchievement>>
               /\ SalesAchievement[1] = "I"

\* "Reduced cost by 5% 10% growth 10% growth ": the match of the first
\* pattern comes first, twice.
C13_Witness ==
    /\ call = "_extract_achievements"
    /\ Len(out.achievements) = 3
    /\ out.achievements[1] = out.achievements[2]
    /\ text[1] = "R"
    /\ out.achievements[3][1] = "R"

NothingRaised == raised = <<"none", "none">>

\* The results for a text without matches.
NoMatches ==
    /\ call = "_extract_skills" => out.found = <<>>
    /\ call \in {"_extract_required_skills", "_extract_preferred_skills"} =>
           out.skills = <<>>
    /\ call = "_extract_achievements" => out.achievements = <<>>
    /\ call = "_extract_key_phrases" => out.key_phrases = <<>>
    /\ call = "_extract_education" => out.education = <<>>
    /\ call = "_extract_experience_years" => out.years = 0
    /\ Analyzed =>
           /\ out.technical_skills = <<>>
           /\ out.soft_skills = <<>>
           /\ out.action_words = <<>>
           /\ out.all_keywords = <<>>
           /\ out.keyword_frequency = <<>>
    /\ call = "analyze_job_description" =>
           /\ out.required_skills = <<>>
           /\ out.preferred_skills = <<>>
           /\ out.education_requirements = <<>>
           /\ out.key_phrases = <<>>
           /\ out.experience_years = 0
    /\ call = "analyze_resume" => out.achievements = <<>>

\* C14: on an absent text (None) no analyzer or extractor raises; each
\* returns its empty result and experience_years 0.
C14_NoneIsNoMatch == text = None => (NothingRaised /\ NoMatches)

\* C15: on the empty text no analyzer or extractor raises, and each returns
\* its empty result: empty lists, no education, 0 years, records with empty
\* skill lists, all_keywords and keyword_frequency.
C15_EmptyText == text = <<>> => (NothingRaised /\ NoMatches)

C15_Witness ==
    /\ text = <<>>
    /\ call = "analyze_job_description"
    /\ remaining = 0
    /\ out.keyword_frequency = <<>>
    /\ out.experience_years = 0

InCategories(record, key) ==
    Cardinality({category \in {"technical_skills", "soft_skills", "action_words"} :
                    key \in Range(record[category])})

FrequencyKeys == {out.keyword_frequency[i][1] : i \in DOMAIN out.keyword_frequency}

\* C17: keyword_frequency has at most 20 entries; each key is in
\* all_keywords and its value is the number of category lists that hold it;
\* no keyword left out has a larger count than one kept; with at most 20
\* elements in all_keywords the keys are all_keywords.
C17_KeywordFrequency ==
    Analyzed =>
        /\ Len(out.keyword_frequency) <= 20
        /\ Cardinality(FrequencyKeys) = Len(out.keyword_frequency)
        /\ FrequencyKeys \subseteq Range(out.all_keywords)
        /\ \A i \in DOMAIN out.keyword_frequency :
               /\ out.keyword_frequency[i][2] = InCategories(out, out.keyword_frequency[i][1])
               /\ \A left \in Range(out.all_keywords) \ FrequencyKeys :
                      InCategories(out, left) <= out.keyword_frequency[i][2]
        /\ Len(out.all_keywords) <= 20 => FrequencyKeys = Range(out.all_keywords)

\* 22 keywords, of which 20 are kept.
C17_Witness ==
    /\ Analyzed
    /\ Len(out.all_keywords) = 22
    /\ Len(out.keyword_frequency) = 20
    /\ out.action_words = <<"built", "led">>

\* ================================================== claims: the Optimizer

Suggested == call = "suggest_improvements"

\* What the suggestions of a type name, in order.
RECURSIVE NamedBy(_, _)
NamedBy(suggestions, type) ==
    IF suggestions = <<>> THEN <<>>
    ELSE (IF Head(suggestions).type = type THEN Head(suggestions).names ELSE <<>>)
         \o NamedBy(Tail(suggestions), type)

OfType(type) == SelectSeq(out.suggestions, LAMBDA suggestion : suggestion.type = type)

\* Whether the entry is a substring of t, letter case apart.
CaselessIn(entry, t) ==
    \E i \in 1..(Len(t) - Len(Spelling[entry]) + 1) : LiteralAt(t, i, Spelling[entry])

\* The entries among the first five that are no substring of the resume,
\* letter case apart.
NotInResume(entries) ==
    SelectSeq(First(entries, 5), LAMBDA entry : ~CaselessIn(entry, text))

\* C18: the missing_skill suggestions, all of priority high, name exactly the
\* entries among the first 5 of required_skills that are no case-insensitive
\* substring of the resume; the sixth entry and later ones are never named.
C18_MissingSkill ==
    Suggested =>
        /\ NamedBy(out.suggestions, "missing_skill")
               = NotInResume(Get(job_analysis, "required_skills", <<>>))
        /\ \A i \in DOMAIN OfType("missing_skill") :
               /\ OfType("missing_skill")[i].priority = "high"
               /\ Len(OfType("missing_skill")[i].names) = 1

\* "Python" stands in the resume as "PYTHON"; the sixth entry, "rust", does
\* not stand in it.
C18_Witness ==
    /\ Suggested
    /\ Len(job_analysis.required_skills) = 6
    /\ CaselessIn("Python", text)
    /\ ~In(Spelling["Python"], text)
    /\ ~CaselessIn("rust", text)
    /\ NamedBy(out.suggestions, "missing_skill") = <<"sql", "aws", "git">>

\* C19: the action_word suggestions, all of priority medium, name exactly the
\* entries among the first 5 of action_words that are no case-insensitive
\* substring of the resume, whatever the letter case of the entries.
C19_ActionWord ==
    Suggested =>
        /\ NamedBy(out.suggestions, "action_word")
               = NotInResume(Get(job_analysis, "action_words", <<>>))
        /\ \A i \in DOMAIN OfType("action_word") :
               /\ OfType("action_word")[i].priority = "medium"
               /\ Len(OfType("action_word")[i].names) = 1

\* job_record.technical_skills minus the white-space-split lower-case
\* tokens of the resume.
KeywordsNotInResume ==
    LET tokens == Split(str_lower(text))
    IN  {skill \in Range(Get(job_analysis, "technical_skills", <<>>)) :
            Spelling[skill] \notin tokens}

\* C20: one achievement suggestion if match_score < 70 and none otherwise;
\* one keywords suggestion if match_score < 60 and some technical skill of
\* the job is no token of the resume, none otherwise; it names at most 5
\* keywords, each of them such a skill.
C20_Thresholds ==
    Suggested =>
        LET difference == KeywordsNotInResume
            keywords == OfType("keywords")
        IN  /\ Len(OfType("achievement")) = IF match.score < 7000 THEN 1 ELSE 0
            /\ Len(keywords) = IF match.score < 6000 /\ difference # {} THEN 1 ELSE 0
            /\ \A i \in DOMAIN keywords :
                   /\ Len(keywords[i].names) <= 5
                   /\ Range(keywords[i].names) \subseteq difference

\* Score 55 and six technical skills that are no token of the resume.
C20_Witness ==
    /\ Suggested
    /\ match.score = 5500
    /\ Cardinality(KeywordsNotInResume) = 6
    /\ Len(OfType("achievement")) = 1
    /\ Len(OfType("keywords")) = 1
    /\ Len(OfType("keywords")[1].names) = 5

\* The place of a suggestion's block in the order of emission.
Block(suggestion) ==
    CASE suggestion.type = "missing_skill" -> 1
      [] suggestion.type = "action_word" -> 2
      [] suggestion.type = "achievement" -> 3
      [] suggestion.type = "keywords" -> 4

\* Whether `part' can be had from `whole' by leaving entries out: every
\* prefix of `part' fits into `whole' further left than the next entry.
RECURSIVE IsSubsequence(_, _)
IsSubsequence(part, whole) ==
    IF part = <<>> THEN TRUE
    ELSE IF whole = <<>> THEN FALSE
    ELSE IF Head(part) = Head(whole) THEN IsSubsequence(Tail(part), Tail(whole))
    ELSE IsSubsequence(part, Tail(whole))

\* C21: the suggestions come block by block: missing skills in the order of
\* required_skills, action words in the order of action_words, then the
\* achievement, then the keywords; a keywords suggestion stands right after
\* an achievement suggestion.
C21_EmissionOrder ==
    Suggested =>
        /\ \A i, j \in DOMAIN out.suggestions :
               i < j => Block(out.suggestions[i]) <= Block(out.suggestions[j])
        /\ IsSubsequence(NamedBy(out.suggestions, "missing_skill"),
                         Get(job_analysis, "required_skills", <<>>))
        /\ IsSubsequence(NamedBy(out.suggestions, "action_word"),
                         Get(job_analysis, "action_words", <<>>))
        /\ \A i \in DOMAIN out.suggestions :
               out.suggestions[i].type = "keywords" =>
                   i > 1 /\ out.suggestions[i - 1].type = "achievement"

\* A result with all four blocks, two suggestions in each of the first two.
C21_Witness ==
    /\ Suggested
    /\ Len(OfType("missing_skill")) >= 2
    /\ Len(OfType("action_word")) >= 2
    /\ Len(OfType("achievement")) = 1
    /\ Len(OfType("keywords")) = 1
    /\ out.suggestions[Len(out.suggestions)].type = "keywords"

\* ============================================ claims: the shared analyzer

\* The results the call returns when it runs alone, on an analyzer and on
\* records nobody else touches.
Alone(method, t, score) ==
    CASE method = "analyze_job_description" -> analyze_job_description(t)
      [] method = "analyze_resume" -> analyze_resume(t)
      [] method = "_extract_skills" -> {[found |-> _extract_skills(t, technical_skills)]}
      [] method = "calculate_match_score" -> calculate_match_score(SharedResume, SharedJob)
      [] method = "suggest_improvements" ->
             {[suggestions |-> suggestions] :
                  suggestions \in suggest_improvements(t, SharedJob, score)}

\* C22: while threads run engine operations on one analyzer and on the same
\* records, in any interleaving of their statements, the analyzer's fields
\* (the lexicons) and the handed records stay as they were, and every call
\* returns a result the same call returns when run alone.
C22_SharedAnalyzer ==
    threads # <<>> =>
        /\ analyzer = NLPAnalyzer
        /\ passed.resume = SharedResume
        /\ passed.job = SharedJob
        /\ \A t \in Threads :
               returned[t] # <<>> =>
                   returned[t][1] \in Alone(threads[t].method, passed.text, passed.score)

\* A call of analyze_job_description has returned what it found while a call
\* of analyze_resume of another thread is in the middle of its statements.
C22_Witness ==
    /\ threads # <<>>
    /\ \E t \in Threads, u \in Threads :
          /\ threads[t].method = "analyze_job_description"
          /\ returned[t] # <<>>
          /\ returned[t][1].technical_skills # <<>>
          /\ threads[u].method = "analyze_resume"
          /\ returned[u] = <<>>
          /\ Len(threads[u].locals) = 2

\* ======================================= claims: the queue and the limiter

\* The limiter counts for the current day and has reached its limit.
Exhausted ==
    /\ rate_limiter.last_reset = today
    /\ rate_limiter.applications_today >= rate_limiter.daily_limit

\* C23: with record_application called by process_queue only, no day has
\* more than daily_limit applications recorded, and once applications_today
\* has reached daily_limit for the current day no step starts an application
\* attempt or records one, whatever the order of requests, invocations of
\* process_queue and midnights.
C23_DailyCap ==
    /\ [](\A day \in Days : log.recorded[day] <= rate_limiter.daily_limit)
    /\ [][Exhausted => /\ log'.attempted = log.attempted
                       /\ log'.recorded = log.recorded]_vars

\* process_queue has recorded the application that reached the limit and
\* has returned, leaving a queued application in the queue.
C23_Witness ==
    /\ Exhausted
    /\ log.created.count < daily_limit
    /\ log.recorded[today] = daily_limit
    /\ log.attempted # {}
    /\ application_queue.queue # <<>>
    /\ \E i \in Invocations : tasks[i].pc = "returned"

\* C24: the count of the limiter is the number of applications recorded on
\* the day last_reset, so that applications of an earlier day never lower
\* the allowance of the current day; an operation of the limiter on a day
\* later than last_reset leaves last_reset at that day and computes its
\* result from that day's applications only; a limiter created on the date
\* of the file starts at the stored count, one created on another date
\* starts at 0.
C24_DailyReset ==
    /\ rate_limiter.last_reset <= today
    /\ rate_limiter.applications_today = log.recorded[rate_limiter.last_reset]
    /\ log.operation # "none" => rate_limiter.last_reset = log.on
    /\ log.operation = "can_apply" =>
           log.allowed = (log.recorded[log.on] < rate_limiter.daily_limit)
    /\ log.operation = "get_remaining" =>
           log.result = Max(0, rate_limiter.daily_limit - log.recorded[log.on])
    /\ log.operation = "record_application" => log.result = log.recorded[log.on]
    /\ log.created.count =
           IF log.created.stored # <<>> /\ log.created.stored[1].date = log.created.on
           THEN log.created.stored[1].count
           ELSE 0

\* C25: every request the route has answered 'queued' is in the end taken
\* from the queue and attempted, unless the daily limit is exhausted.
C25_EventuallyAttempted ==
    \A request \in Requests :
        (request \in log.accepted) ~> (request \in log.attempted \/ Exhausted)

\* C26: whenever no invocation of process_queue is executing, the flag
\* processing is False.
C26_FlagReleased ==
    (\A i \in Invocations : tasks[i].pc \notin Suspended)
        => ~application_queue.processing

\* Invocation i is turned away in this step.
TurnedAway(i) == tasks'[i].pc = "turned away" /\ tasks'[i] # tasks[i]

\* C27: at most one invocation of process_queue is inside the loop, and an
\* invocation that is turned away leaves the queue, the flag, the limiter
\* and its file as they are and starts no attempt.
C27_MutualExclusion ==
    /\ [](Cardinality({i \in Invocations : tasks[i].pc \in Suspended}) <= 1)
    /\ [][\A i \in Invocations :
              TurnedAway(i) => UNCHANGED <<application_queue, rate_limiter, storage, log>>]_vars

\* An invocation has been turned away while another awaits its application
\* attempt and an application is still in the queue.
C27_Witness ==
    \E i \in Invocations, j \in Invocations :
        /\ tasks[i].pc = "applying"
        /\ tasks[j].pc = "turned away"
        /\ application_queue.processing
        /\ application_queue.queue # <<>>

\* ===================================== claims: the records and the scores

\* C28: in every record analyze_job_description returns, required_skills
\* and preferred_skills hold only skills that technical_skills holds too.
C28_SectionSkillsAreTechnical ==
    call = "analyze_job_description" =>
        /\ Range(out.required_skills) \subseteq Range(out.technical_skills)
        /\ Range(out.preferred_skills) \subseteq Range(out.technical_skills)

\* The weight of a category whose job-side set is S, in hundredths.
Weight(S, weight) == IF S = {} THEN 0 ELSE 100 * weight

\* The sum of the weights of the categories the job record fills.
GreatestScore ==
    Weight(JobTech, 40) + Weight(JobRequired, 30) + Weight(JobSoft, 15)
        + Weight(JobActions, 15)

\* The resume record holds every element of every job-side set; the
\* required skills are looked for among the resume's technical skills.
HoldsAll ==
    /\ JobTech \subseteq ResumeTech
    /\ JobRequired \subseteq ResumeTech
    /\ JobSoft \subseteq ResumeSoft
    /\ JobActions \subseteq ResumeActions

\* The resume record that holds every name of the universes.
FullResume ==
    [technical_skills |-> Listing(TechUniverse, TechNames),
     soft_skills |-> Listing(SoftUniverse, <<"leadership">>),
     action_words |-> Listing(ActionUniverse, <<"led", "built">>)]

\* C29: against a job record no resume record scores more than the sum of
\* the weights (40, 30, 15, 15) of the categories whose job-side set is not
\* empty; a resume record scores that sum exactly when it holds every
\* element of each job-side set, and some resume record does; the score is
\* 100 only if all four job-side sets are non-empty.
C29_GreatestScore ==
    Scored =>
        /\ match.score <= GreatestScore
        /\ match.score = GreatestScore <=> HoldsAll
        /\ \A full \in calculate_match_score(FullResume, job_analysis) :
               full.score = GreatestScore
        /\ match.score = 10000 =>
               JobTech # {} /\ JobRequired # {} /\ JobSoft # {} /\ JobActions # {}

\* A resume record reaches the greatest score, 55, of a job record that
\* names technical and soft skills only, and holds more than the job names.
C29_Witness ==
    /\ Scored
    /\ JobTech # {} /\ JobSoft # {} /\ JobRequired = {} /\ JobActions = {}
    /\ match.score = 5500
    /\ HoldsAll
    /\ ResumeTech # JobTech

\* ============================================ claims: create_application

\* C30: the missing_skill suggestions name a skill among the first five of
\* the job's required_skills exactly when the breakdown of the score lists
\* it in missing_required_skills.
C30_ScorerAndSuggestionsAgree ==
    call = "create_application" =>
        \A skill \in Range(First(job_analysis.required_skills, 5)) :
            skill \in Range(NamedBy(out.suggestions, "missing_skill"))
                <=> skill \in Range(match.breakdown.missing_required_skills)

====
